---- MODULE Spec2Model ----
(***************************************************************************)
(* Verification model of obsidian-journal-prepare.                         *)
(*                                                                         *)
(* Six state machines share this module:                                   *)
(*   Spec      the page adapter (Page, Content, Vault::update) working on  *)
(*             one page file of the vault;                                 *)
(*   SpecRec   the construction of a Recurrence from a SerdeRecurrence;    *)
(*   SpecEvt   an event that is constructed and then asked whether it, its *)
(*             recurrence or its validity matches a date;                  *)
(*   SpecCal   a calendar unit (ISO week, month, year) that is iterated or *)
(*             navigated from;                                             *)
(*   SpecMerge two documents added with Add for Content;                   *)
(*   SpecRun   Preparer::run over a range of dates.                        *)
(*                                                                         *)
(* A text (file content, rendered page) is the sequence of its lines, each *)
(* line terminated by a newline.  A line is a token: the front-matter      *)
(* delimiter "---", a fence "```<kind>", one of the YAML line forms of the *)
(* front matter ("key: scalar", "key:", a sequence item, a document start, *)
(* an unclosed scalar), or any other single-line text.                     *)
(* Whether the last line of a file carries its                             *)
(* newline is not recorded: from_str reads both forms alike and Display    *)
(* always writes the newline.                                              *)
(***************************************************************************)
EXTENDS Integers, Sequences, FiniteSets, TLC

(***************************************************************************)
(* Bounds of the model                                                     *)
(***************************************************************************)
\* properties and lines handed to the mutation calls in one run
MaxOps == 2
\* times a page is loaded from its path in one run
MaxLoads == 2
\* lines handed to one prepend_lines call
MaxBatch == 2
\* calls made on one DateIterator: the 31 days of a long month and two more
MaxCalls == 33
\* next_back is called among the first calls made on an iterator only
MaxBackCalls == 3
\* arithmetic and navigation calls chained from one month or week
MaxNav == 2
\* properties and entries of a document that is merged
MaxProperties == 2
MaxEntries == 2
\* times the same document is merged into the target
MaxMerges == 2
\* days between the first and the last date of a run
MaxSpan == 8

(***************************************************************************)
(* Lines of a text                                                         *)
(***************************************************************************)
\* the line "---"
Delim == [k |-> "delim", a |-> "", b |-> "", q |-> ""]
\* a line "```<kind>"; Fence("") is the line "```"
Fence(kind) == [k |-> "fence", a |-> kind, b |-> "", q |-> ""]
\* any other line; Txt("") is the blank line
Txt(s) == [k |-> "txt", a |-> s, b |-> "", q |-> ""]
\* a line "key: scalar"; q = "dq" when the scalar is written in double quotes
KV(key, q, s) == [k |-> "kv", a |-> key, b |-> s, q |-> q]
\* a line "key:", which opens a nested block
KeyOnly(key) == [k |-> "key", a |-> key, b |-> "", q |-> ""]
\* a line "  - s", an item of a nested sequence
Item(s) == [k |-> "item", a |-> s, b |-> "", q |-> "in"]
\* a line "- s", an item of a sequence at the top level
TopItem(s) == [k |-> "item", a |-> s, b |-> "", q |-> ""]
\* a line "--- " (the three dashes and a space): for YAML the start of a
\* document, for from_str a line like any other
DocStart == [k |-> "doc", a |-> "", b |-> "", q |-> ""]
\* a line `key: "s` whose quoted scalar is never closed
Unclosed(key, s) == [k |-> "bad", a |-> key, b |-> s, q |-> "dq"]

(***************************************************************************)
(* YAML scalars of the property mapping                                    *)
(***************************************************************************)
StrV(s) == [t |-> "str", s |-> s, items |-> <<>>]
IntV(s) == [t |-> "int", s |-> s, items |-> <<>>]
NullV == [t |-> "null", s |-> "~", items |-> <<>>]
\* a sequence of strings, the value of a key with a nested block
SeqV(items) == [t |-> "seq", s |-> "", items |-> items]

\* to_yaml_str: the API only ever inserts string scalars
to_yaml_str(s) == StrV(s)

\* plain scalars the YAML loader resolves to a non-string
LooksNumeric(s) == s \in {"1"}

\* mutant: the emitter never quotes
EmitScalarLine_plain(key, v) == KV(key, "", v.s)

\* YamlEmitter: a string that would load as a number or as null is
\* double-quoted
EmitScalarLine(key, v) ==
    IF v.t \in {"int", "null"} THEN KV(key, "", v.s)
    ELSE IF LooksNumeric(v.s) \/ v.s = NullV.s THEN KV(key, "dq", v.s)
    ELSE KV(key, "", v.s)

\* YAML loader: a quoted scalar is a string, a plain one is resolved
LoadScalar(line) ==
    IF line.q = "dq" THEN StrV(line.b)
    ELSE IF LooksNumeric(line.b) THEN IntV(line.b)
    ELSE IF line.b = NullV.s THEN NullV
    ELSE StrV(line.b)

(***************************************************************************)
(* Entries and Content                                                     *)
(***************************************************************************)
Line(t) == [type |-> "Line", line |-> t, kind |-> "", code |-> <<>>]
\* code is the sequence of the block's lines (each followed by a newline)
CodeBlock(kind, code) ==
    [type |-> "CodeBlock", line |-> Txt(""), kind |-> kind, code |-> code]

\* Entry::is_empty
is_empty(e) ==
    IF e.type = "Line" THEN e.line = Txt("") ELSE e.code = <<>>

\* Content::default
DefaultContent == [properties |-> <<>>, entries |-> <<>>]

KeyIndex(props, key) ==
    IF \E i \in 1..Len(props) : props[i].key = key
    THEN CHOOSE i \in 1..Len(props) : props[i].key = key
    ELSE 0

RemoveAt(s, i) == SubSeq(s, 1, i - 1) \o SubSeq(s, i + 1, Len(s))

\* LinkedHashMap::insert as called by insert_property: a new key goes to the
\* back; an existing key gets the new value and moves to the back
MappingInsert(props, key, v) ==
    LET i == KeyIndex(props, key) IN
    IF i = 0 THEN Append(props, [key |-> key, val |-> v])
    ELSE Append(RemoveAt(props, i), [key |-> key, val |-> v])

\* mutant: reports a change whenever the key was present
insert_property_present(c, key, value) ==
    [content |-> [c EXCEPT !.properties = MappingInsert(@, key, to_yaml_str(value))],
     ret |-> KeyIndex(c.properties, key) # 0]

\* Content::insert_property: the new content and the returned flag
insert_property(c, key, value) ==
    LET i == KeyIndex(c.properties, key) IN
    [content |-> [c EXCEPT !.properties = MappingInsert(@, key, to_yaml_str(value))],
     ret |-> IF i = 0 THEN TRUE
             ELSE c.properties[i].val # to_yaml_str(value)]

\* mutant: push_back instead of push_front
prepend_unique_entry_back(c, entry) ==
    IF \A i \in 1..Len(c.entries) : c.entries[i] # entry
    THEN [content |-> [c EXCEPT !.entries = @ \o <<entry>>], ret |-> TRUE]
    ELSE [content |-> c, ret |-> FALSE]

\* Content::prepend_unique_entry: the new content and the returned flag
prepend_unique_entry(c, entry) ==
    IF \A i \in 1..Len(c.entries) : c.entries[i] # entry
    THEN [content |-> [c EXCEPT !.entries = <<entry>> \o @], ret |-> TRUE]
    ELSE [content |-> c, ret |-> FALSE]

(***************************************************************************)
(* Display for Content                                                     *)
(***************************************************************************)
\* Display for Entry / CodeBlock
EntryLines(e) ==
    IF e.type = "Line" THEN <<e.line>>
    ELSE <<Fence(e.kind)>> \o e.code \o <<Fence("")>>

\* mutant: the first entry is skipped whether it is empty or not
RECURSIVE RenderEntries_skipFirst(_, _, _)
RenderEntries_skipFirst(entries, i, entries_started) ==
    IF i > Len(entries) THEN <<>>
    ELSE IF ~entries_started
         THEN RenderEntries_skipFirst(entries, i + 1, TRUE)
         ELSE EntryLines(entries[i]) \o RenderEntries_skipFirst(entries, i + 1, TRUE)

RECURSIVE RenderEntries(_, _, _)
RenderEntries(entries, i, entries_started) ==
    IF i > Len(entries) THEN <<>>
    ELSE IF ~entries_started /\ is_empty(entries[i])
         THEN RenderEntries(entries, i + 1, FALSE)
         ELSE EntryLines(entries[i]) \o RenderEntries(entries, i + 1, TRUE)

\* YamlEmitter: a nested sequence is written as a block under its key
EmitProperty(key, v) ==
    IF v.t = "seq"
    THEN <<KeyOnly(key)>> \o [i \in 1..Len(v.items) |-> Item(v.items[i])]
    ELSE <<EmitScalarLine(key, v)>>

RECURSIVE EmitMapping(_, _)
EmitMapping(props, i) ==
    IF i > Len(props) THEN <<>>
    ELSE EmitProperty(props[i].key, props[i].val) \o EmitMapping(props, i + 1)

\* mutant: a blank line follows the closing delimiter
RenderProperties_separator(props) ==
    IF props = <<>> THEN <<>>
    ELSE <<Delim>> \o EmitMapping(props, 1) \o <<Delim, Txt("")>>

\* YamlEmitter::dump, then writeln!(f, "\n---")
RenderProperties(props) ==
    IF props = <<>> THEN <<>>
    ELSE <<Delim>> \o EmitMapping(props, 1) \o <<Delim>>

Render(c) == RenderProperties(c.properties) \o RenderEntries(c.entries, 1, FALSE)

(***************************************************************************)
(* FromStr for Content                                                     *)
(***************************************************************************)
\* mutant: a blank line ends the scan as well
RECURSIVE FindLine_orBlank(_, _, _)
FindLine_orBlank(text, i, tok) ==
    IF i > Len(text) THEN i
    ELSE IF text[i] = tok \/ text[i] = Txt("") THEN i
    ELSE FindLine_orBlank(text, i + 1, tok)

\* index of the first line equal to tok at or after i, Len + 1 if none
RECURSIVE FindLine(_, _, _)
FindLine(text, i, tok) ==
    IF i > Len(text) THEN i
    ELSE IF text[i] = tok THEN i
    ELSE FindLine(text, i + 1, tok)

\* mutant: the scan resumes at the closing fence instead of after it
RECURSIVE ParseEntries_atClose(_, _)
ParseEntries_atClose(text, i) ==
    IF i > Len(text) THEN <<>>
    ELSE IF text[i].k = "fence"
         THEN LET j == FindLine(text, i + 1, Fence("")) IN
              <<CodeBlock(text[i].a, SubSeq(text, i + 1, j - 1))>>
                  \o ParseEntries_atClose(text, j)
         ELSE <<Line(text[i])>> \o ParseEntries_atClose(text, i + 1)

RECURSIVE ParseEntries(_, _)
ParseEntries(text, i) ==
    IF i > Len(text) THEN <<>>
    ELSE IF text[i].k = "fence"
         THEN LET j == FindLine(text, i + 1, Fence("")) IN
              <<CodeBlock(text[i].a, SubSeq(text, i + 1, j - 1))>>
                  \o ParseEntries(text, j + 1)
         ELSE <<Line(text[i])>> \o ParseEntries(text, i + 1)

\* the first line at or after i that is not an item of a nested sequence
RECURSIVE ItemsEnd(_, _)
ItemsEnd(lines, i) ==
    IF i > Len(lines) \/ lines[i] # Item(lines[i].a) THEN i
    ELSE ItemsEnd(lines, i + 1)

\* the mapping of a document of "key: scalar" lines and nested blocks
RECURSIVE LoadMapping(_, _, _)
LoadMapping(lines, i, acc) ==
    IF i > Len(lines) THEN acc
    ELSE IF lines[i].k = "kv"
         THEN LoadMapping(lines, i + 1,
                          MappingInsert(acc, lines[i].a, LoadScalar(lines[i])))
         ELSE LET j == ItemsEnd(lines, i + 1) IN
              LoadMapping(lines, j,
                  MappingInsert(acc, lines[i].a,
                      IF j = i + 1 THEN NullV
                      ELSE SeqV([n \in 1..(j - i - 1) |-> lines[i + n].a])))

IsBlank(t) == t = Txt("")
NotBlank(t) == ~IsBlank(t)

\* the lines are those of a block mapping: "key: scalar" lines and "key:"
\* lines, each nested item below a "key:" line
IsMappingDocument(lines) ==
    /\ lines # <<>>
    /\ lines[1].k \in {"kv", "key"}
    /\ \A i \in 1..Len(lines) :
            \/ lines[i].k \in {"kv", "key"}
            \/ /\ lines[i] = Item(lines[i].a)
               /\ i > 1
               /\ lines[i - 1].k \in {"key", "item"}

LoadError(e) == [ok |-> FALSE, err |-> e, properties |-> <<>>]

\* mutant: a key with a nested block is not taken
LoadProperties_flat(fm) ==
    LET body == SelectSeq(fm, NotBlank) IN
    IF body = <<>> THEN [ok |-> TRUE, err |-> "", properties |-> <<>>]
    ELSE IF \A i \in 1..Len(body) : body[i].k = "kv"
         THEN [ok |-> TRUE, err |-> "", properties |-> LoadMapping(body, 1, <<>>)]
         ELSE LoadError("NotAMapping")

\* YamlOwned::load_from_str on the captured front matter, then the checks of
\* from_str.  A scalar that is never closed is a scan error; a document
\* start after the first line makes a second document; no document leaves
\* the default mapping; a mapping is taken, nested values and all; a
\* sequence, a scalar or an empty explicit document is not a mapping.
LoadProperties(fm) ==
    LET body == SelectSeq(fm, NotBlank)
        doc == IF body # <<>> /\ body[1] = DocStart THEN Tail(body) ELSE body
    IN
    IF \E i \in 1..Len(body) : body[i].k = "bad" THEN LoadError("Yaml")
    ELSE IF \E i \in 1..Len(doc) : doc[i] = DocStart THEN LoadError("MultipleDocuments")
    ELSE IF body = <<>> THEN [ok |-> TRUE, err |-> "", properties |-> <<>>]
    ELSE IF IsMappingDocument(doc)
         THEN [ok |-> TRUE, err |-> "", properties |-> LoadMapping(doc, 1, <<>>)]
    ELSE IF \/ doc = <<>>
            \/ \A i \in 1..Len(doc) : doc[i] = TopItem(doc[i].a)
            \/ \A i \in 1..Len(doc) : doc[i].k \in {"txt", "fence"}
         THEN LoadError("NotAMapping")
    ELSE LoadError("Yaml")

\* the first line at or after i that is not blank, Len + 1 if none
RECURSIVE SkipBlank(_, _)
SkipBlank(text, i) ==
    IF i > Len(text) \/ text[i] # Txt("") THEN i
    ELSE SkipBlank(text, i + 1)

\* mutant: the blank lines before the first entry are passed over
Parse_dropLeading(text) ==
    IF Len(text) >= 1 /\ text[1] = Delim
    THEN LET j == FindLine(text, 2, Delim)
             p == LoadProperties(SubSeq(text, 2, j - 1)) IN
         IF p.ok
         THEN [ok |-> TRUE, err |-> "",
               content |-> [properties |-> p.properties,
                            entries |-> ParseEntries(text, SkipBlank(text, j + 1))]]
         ELSE [ok |-> FALSE, err |-> p.err, content |-> DefaultContent]
    ELSE [ok |-> TRUE, err |-> "",
          content |-> [properties |-> <<>>,
                       entries |-> ParseEntries(text, SkipBlank(text, 1))]]

\* Content::from_str
Parse(text) ==
    IF Len(text) >= 1 /\ text[1] = Delim
    THEN LET j == FindLine(text, 2, Delim)
             p == LoadProperties(SubSeq(text, 2, j - 1)) IN
         IF p.ok
         THEN [ok |-> TRUE, err |-> "",
               content |-> [properties |-> p.properties,
                            entries |-> ParseEntries(text, j + 1)]]
         ELSE [ok |-> FALSE, err |-> p.err, content |-> DefaultContent]
    ELSE [ok |-> TRUE, err |-> "",
          content |-> [properties |-> <<>>, entries |-> ParseEntries(text, 1)]]

(***************************************************************************)
(* Inputs                                                                  *)
(***************************************************************************)
Keys == {"k1", "k2"}
Values == {"a", "1"}
LineInputs == {Txt("x"), Txt(""), Fence(""), Delim}
BatchInputs == UNION {[1..n -> {Txt("x"), Txt("y")}] : n \in 0..MaxBatch}
\* what a call costs of the MaxOps budget: one per line or property handled
Cost(lines) == IF lines = <<>> THEN 1 ELSE Len(lines)

NoFile == [present |-> FALSE, text |-> <<>>]
FileOf(text) == [present |-> TRUE, text |-> text]

\* page files found in a vault: written by earlier runs or edited by hand
InitialTexts ==
    { <<>>,
      <<Delim, KV("k1", "", "a"), KV("k2", "", "a"), Delim, Txt("x")>>,
      <<Txt(""), Txt("y"), Txt(""), Txt("y")>>,
      <<Delim, KV("k1", "", "1"), Delim,
        Fence("toml"), Txt("x"), Txt(""), Fence("")>>,
      <<Fence(""), Fence(""), Txt("x")>>,
      <<Txt(""), Delim, Txt("y")>>,
      <<Delim, Txt("x"), Delim, Txt("y")>>,
      <<Delim, KeyOnly("k1"), Item("a"), Delim, Txt("x"), Txt("")>>,
      <<Delim, Delim, Txt("y")>>,
      <<Delim, TopItem("a"), Delim, Txt("y")>>,
      <<Delim, KV("k1", "", "a"), DocStart, KV("k2", "", "a"), Delim, Txt("y")>>,
      <<Delim, Unclosed("k1", "a"), Delim, Txt("y")>> }


(***************************************************************************)
(* Dates.  A NaiveDate is a record of year, month and day of the proleptic *)
(* Gregorian calendar; the accessors are computed as chrono defines them.  *)
(***************************************************************************)
\* NaiveDate::from_ymd_opt(year, month, day).unwrap()
Date(y, m, d) == [year |-> y, month |-> m, day |-> d]

\* the Gregorian calendar of NaiveDate: leap years and the length of each
\* month
IsLeapYear(y) == (y % 4 = 0 /\ y % 100 # 0) \/ y % 400 = 0

days_in_month(y, m) ==
    IF m = 2 THEN (IF IsLeapYear(y) THEN 29 ELSE 28)
    ELSE IF m \in {4, 6, 9, 11} THEN 30 ELSE 31

\* NaiveDate::from_ymd_opt(year, month, day).is_some()
from_ymd_opt_is_some(y, m, d) ==
    m \in 1..12 /\ d >= 1 /\ d <= days_in_month(y, m)

\* Month::from(date)
MonthOf(date) == [year |-> date.year, month |-> date.month]

\* mutant: February has 28 days in every year
num_days_noLeap(month) ==
    CASE month.month = 2 -> 28
      [] month.month \in {1, 3, 5, 7, 8, 10, 12} -> 31
      [] OTHER -> 30

\* Month::num_days: February has 29 days when the 29th of February of the
\* year exists
num_days(month) ==
    CASE month.month = 2 ->
            IF from_ymd_opt_is_some(month.year, 2, 29) THEN 29 ELSE 28
      [] month.month \in {1, 3, 5, 7, 8, 10, 12} -> 31
      [] OTHER -> 30

RECURSIVE DaysBeforeMonth(_, _)
DaysBeforeMonth(y, m) ==
    IF m = 1 THEN 0
    ELSE DaysBeforeMonth(y, m - 1) + days_in_month(y, m - 1)

\* date.day0(), date.ordinal()
day0(date) == date.day - 1
ordinal(date) == DaysBeforeMonth(date.year, date.month) + date.day

\* days from 0001-01-01, a Monday, to the first day of year y
DaysBeforeYear(y) ==
    365 * (y - 1) + ((y - 1) \div 4) - ((y - 1) \div 100) + ((y - 1) \div 400)

Weekdays == <<"Mon", "Tue", "Wed", "Thu", "Fri", "Sat", "Sun">>

\* date.weekday()
weekday(date) == Weekdays[((DaysBeforeYear(date.year) + ordinal(date) - 1) % 7) + 1]

\* the order of NaiveDate: by year, then by day of the year
DateLe(a, b) == a.year < b.year \/ (a.year = b.year /\ ordinal(a) <= ordinal(b))

\* the dates the matching functions are asked about: every day of a leap
\* year and of a common year
Years == {2024, 2026}
Dates == {Date(y, m, d) : <<y, m, d>> \in
            {t \in Years \X (1..12) \X (1..31) :
                from_ymd_opt_is_some(t[1], t[2], t[3])}}
NoDate == Date(0, 0, 0)

(***************************************************************************)
(* Recurrence::try_from(SerdeRecurrence)                                   *)
(***************************************************************************)
\* mutant: 32 is taken for a day of the month
MonthdayOk_upTo32(index) == index > 0 /\ index < 33

\* Monthday::try_from(u32), Yearday::try_from(u32)
MonthdayOk(index) == index > 0 /\ index < 32

\* mutant: the day 366 of a leap year is refused
YeardayOk_upTo365(index) == index > 0 /\ index < 366

\* Yearday::try_from(u32)
YeardayOk(index) == index > 0 /\ index < 367

\* an error value; arg is the number an InvalidMonthday or InvalidYearday
\* carries (0 in the other errors, which carry nothing)
Err(e) == [done |-> TRUE, ok |-> FALSE, err |-> e, arg |-> 0, variant |-> "none",
           weekdays |-> <<>>, monthdays |-> <<>>, yeardays |-> <<>>,
           dates |-> <<>>, index |-> "none"]
InvalidMonthday(index) == [Err("InvalidMonthday") EXCEPT !.arg = index]
InvalidYearday(index) == [Err("InvalidYearday") EXCEPT !.arg = index]
Ok(variant) == [Err("") EXCEPT !.ok = TRUE, !.variant = variant]
Pending == [Err("") EXCEPT !.done = FALSE]

Daily == Ok("Daily")
Weekly(weekdays) == [Ok("Weekly") EXCEPT !.weekdays = weekdays]
Monthly(monthdays) == [Ok("Monthly") EXCEPT !.monthdays = monthdays]
RelativeMonthly(weekdays, index) ==
    [Ok("RelativeMonthly") EXCEPT !.weekdays = weekdays, !.index = index]
Yearly(yeardays) == [Ok("Yearly") EXCEPT !.yeardays = yeardays]
Once(dates) == [Ok("Once") EXCEPT !.dates = dates]

\* collect::<Result<Vec<_>, _>>() succeeds when every conversion does, and
\* returns the error of the first conversion that fails otherwise
AllMonthdaysOk(list) == \A i \in 1..Len(list) : MonthdayOk(list[i])
AllYeardaysOk(list) == \A i \in 1..Len(list) : YeardayOk(list[i])
FirstInvalidMonthday(list) ==
    list[CHOOSE i \in 1..Len(list) :
            ~MonthdayOk(list[i]) /\ \A j \in 1..(i - 1) : MonthdayOk(list[j])]
FirstInvalidYearday(list) ==
    list[CHOOSE i \in 1..Len(list) :
            ~YeardayOk(list[i]) /\ \A j \in 1..(i - 1) : YeardayOk(list[j])]

TryDaily(s) ==
    IF s.weekdays # <<>> THEN Err("WeekdaysNotAllowed")
    ELSE IF s.monthdays # <<>> THEN Err("MonthdaysNotAllowed")
    ELSE IF s.yeardays # <<>> THEN Err("YeardaysNotAllowed")
    ELSE IF s.dates # <<>> THEN Err("DatesNotAllowed")
    ELSE Daily

\* mutant: the check of `dates` is missing
TryWeekly_noDates(s) ==
    IF s.monthdays # <<>> THEN Err("MonthdaysNotAllowed")
    ELSE IF s.yeardays # <<>> THEN Err("YeardaysNotAllowed")
    ELSE IF s.weekdays = <<>> THEN Err("WeekdaysRequired")
    ELSE Weekly(s.weekdays)

TryWeekly(s) ==
    IF s.monthdays # <<>> THEN Err("MonthdaysNotAllowed")
    ELSE IF s.yeardays # <<>> THEN Err("YeardaysNotAllowed")
    ELSE IF s.dates # <<>> THEN Err("DatesNotAllowed")
    ELSE IF s.weekdays = <<>> THEN Err("WeekdaysRequired")
    ELSE Weekly(s.weekdays)

TryMonthly(s) ==
    IF s.yeardays # <<>> THEN Err("YeardaysNotAllowed")
    ELSE IF s.dates # <<>> THEN Err("DatesNotAllowed")
    ELSE IF s.weekdays = <<>>
         THEN IF s.monthdays = <<>> THEN Err("WeekdaysOrMonthdaysRequired")
              ELSE IF AllMonthdaysOk(s.monthdays) THEN Monthly(s.monthdays)
              ELSE InvalidMonthday(FirstInvalidMonthday(s.monthdays))
         ELSE RelativeMonthly(s.weekdays,
                              IF s.index = "none" THEN "first" ELSE s.index)

TryYearly(s) ==
    IF s.weekdays # <<>> THEN Err("WeekdaysNotAllowed")
    ELSE IF s.monthdays # <<>> THEN Err("MonthdaysNotAllowed")
    ELSE IF s.dates # <<>> THEN Err("DatesNotAllowed")
    ELSE IF s.yeardays = <<>> THEN Err("YeardaysRequired")
    ELSE IF AllYeardaysOk(s.yeardays) THEN Yearly(s.yeardays)
    ELSE InvalidYearday(FirstInvalidYearday(s.yeardays))

TryOnce(s) ==
    IF s.weekdays # <<>> THEN Err("WeekdaysNotAllowed")
    ELSE IF s.monthdays # <<>> THEN Err("MonthdaysNotAllowed")
    ELSE IF s.yeardays # <<>> THEN Err("YeardaysNotAllowed")
    ELSE IF s.dates = <<>> THEN Err("DatesRequired")
    ELSE Once(s.dates)

\* TryFrom<SerdeRecurrence> for Recurrence
TryFromSerde(s) ==
    CASE s.frequency = "daily" -> TryDaily(s)
      [] s.frequency = "weekly" -> TryWeekly(s)
      [] s.frequency = "monthly" -> TryMonthly(s)
      [] s.frequency = "yearly" -> TryYearly(s)
      [] s.frequency = "once" -> TryOnce(s)

\* records a deserialized configuration block can hold
Frequencies == {"daily", "weekly", "monthly", "yearly", "once"}
WeekdayLists == {<<>>, <<"Mon">>, <<"Sun", "Fri">>}
MonthdayLists == {<<>>, <<1>>, <<31>>, <<0>>, <<32>>, <<15, 32, 0>>}
YeardayLists == {<<>>, <<1>>, <<366>>, <<0>>, <<367>>, <<32, 367, 0>>}
DateLists == {<<>>, <<Date(2026, 2, 3)>>, <<Date(2026, 2, 1), Date(2026, 2, 2)>>}
IndexOptions == {"none", "first", "second", "third", "fourth", "last"}

SerdeRecurrences ==
    [frequency : Frequencies, weekdays : WeekdayLists, monthdays : MonthdayLists,
     yeardays : YeardayLists, dates : DateLists, index : IndexOptions]

(***************************************************************************)
(* Recurrence::matches, DateRange::contains, Event::matches                *)
(***************************************************************************)
\* Vec::contains
Contains(list, x) == \E i \in 1..Len(list) : list[i] = x

\* let week_index = monthday0 / 7
week_index(date) == day0(date) \div 7

\* mutant: the distance to the end of the month is counted from the day
\* before
from_last_index_day0(date) == (num_days(MonthOf(date)) - day0(date)) \div 7

\* let from_last_index = (month.num_days() - date.day()) / 7; the day of a
\* date is never past the length of its month, the u32 difference does not
\* wrap
from_last_index(date) == (num_days(MonthOf(date)) - date.day) \div 7

\* mutant: the occurrences of a weekday are numbered from 1
MatchesIndex_fromOne(index, date) ==
    CASE index = "first" -> week_index(date) = 1
      [] index = "second" -> week_index(date) = 2
      [] index = "third" -> week_index(date) = 3
      [] index = "fourth" -> week_index(date) = 4
      [] index = "last" -> from_last_index(date) = 0

\* match index { ... }
MatchesIndex(index, date) ==
    CASE index = "first" -> week_index(date) = 0
      [] index = "second" -> week_index(date) = 1
      [] index = "third" -> week_index(date) = 2
      [] index = "fourth" -> week_index(date) = 3
      [] index = "last" -> from_last_index(date) = 0

\* mutant: a yearly recurrence looks for the day of the month
matches_yearlyByDay(r, date) ==
    CASE r.variant = "Daily" -> TRUE
      [] r.variant = "Weekly" -> Contains(r.weekdays, weekday(date))
      [] r.variant = "Monthly" -> Contains(r.monthdays, date.day)
      [] r.variant = "Yearly" -> Contains(r.yeardays, date.day)
      [] r.variant = "Once" -> Contains(r.dates, date)
      [] r.variant = "RelativeMonthly" ->
            IF Contains(r.weekdays, weekday(date))
            THEN MatchesIndex(r.index, date)
            ELSE FALSE

\* Recurrence::matches; Monthday::try_from(date.day()) and
\* Yearday::try_from(date.ordinal()) are Ok for every date
matches(r, date) ==
    CASE r.variant = "Daily" -> TRUE
      [] r.variant = "Weekly" -> Contains(r.weekdays, weekday(date))
      [] r.variant = "Monthly" -> Contains(r.monthdays, date.day)
      [] r.variant = "Yearly" -> Contains(r.yeardays, ordinal(date))
      [] r.variant = "Once" -> Contains(r.dates, date)
      [] r.variant = "RelativeMonthly" ->
            IF Contains(r.weekdays, weekday(date))
            THEN MatchesIndex(r.index, date)
            ELSE FALSE

\* Option<NaiveDate>
None == <<>>
Some(date) == <<date>>

\* the order of Option: None is below every Some
OptionLe(a, b) ==
    IF a = None THEN TRUE
    ELSE IF b = None THEN FALSE
    ELSE DateLe(a[1], b[1])

DateRange(from, to) == [from |-> from, to |-> to]
DefaultDateRange == DateRange(None, None)

\* mutant: the upper bound is exclusive
contains_openEnd(range, date) ==
    /\ (range.from = None \/ OptionLe(range.from, Some(date)))
    /\ (range.to = None \/ (OptionLe(Some(date), range.to) /\ range.to # Some(date)))

\* DateRange::contains
contains(range, date) ==
    /\ (range.from = None \/ OptionLe(range.from, Some(date)))
    /\ (range.to = None \/ OptionLe(Some(date), range.to))

\* Recurrence::matches panics when an unwrap meets an Err, or, in a build
\* with overflow checks, when month.num_days() - date.day() goes below zero
matches_panics(r, date) ==
    CASE r.variant = "Monthly" -> ~MonthdayOk(date.day)
      [] r.variant = "Yearly" -> ~YeardayOk(ordinal(date))
      [] r.variant = "RelativeMonthly" ->
            /\ Contains(r.weekdays, weekday(date))
            /\ num_days(MonthOf(date)) < date.day
      [] OTHER -> FALSE

\* Event::matches reaches recurrence.matches after validity and exceptions
EventMatches_panics(e, r, date) ==
    /\ contains(e.validity, date)
    /\ \A i \in 1..Len(e.exceptions) : ~contains(e.exceptions[i], date)
    /\ matches_panics(r, date)

\* mutant: the exceptions are not looked at
EventMatches_noExceptions(e, r, date) ==
    IF ~contains(e.validity, date) THEN FALSE
    ELSE matches(r, date)

\* Event::matches, for an event of validity and exceptions e and recurrence r
EventMatches(e, r, date) ==
    IF ~contains(e.validity, date) THEN FALSE
    ELSE IF \E i \in 1..Len(e.exceptions) : contains(e.exceptions[i], date)
    THEN FALSE
    ELSE matches(r, date)

\* the date ranges and the events a configuration block is read into
JanFirst == Date(2026, 1, 1)
JanLast == Date(2026, 1, 31)
DateRanges ==
    { DefaultDateRange,
      DateRange(Some(JanFirst), None),
      DateRange(None, Some(JanLast)),
      DateRange(Some(JanFirst), Some(JanLast)),
      DateRange(Some(JanLast), Some(JanFirst)) }
SomeExceptions ==
    << DateRange(Some(Date(2026, 1, 10)), Some(Date(2026, 1, 10))),
       DateRange(Some(Date(2026, 1, 25)), None) >>
DefaultEvent == [validity |-> DefaultDateRange, exceptions |-> <<>>]
Events ==
    [validity : DateRanges, exceptions : {<<>>}]
        \cup [validity : {DefaultDateRange, DateRange(Some(JanFirst), Some(JanLast))},
              exceptions : {SomeExceptions, <<DefaultDateRange>>}]

\* the recurrence blocks of the events: at most one list, and an index only
\* next to weekdays
EventRecurrences ==
    {s \in SerdeRecurrences :
        /\ Cardinality({f \in {"weekdays", "monthdays", "yeardays", "dates"} :
                            s[f] # <<>>}) <= 1
        /\ (s.index # "none" => (s.frequency = "monthly" /\ s.weekdays # <<>>))
        /\ (s.frequency = "daily" => s.weekdays = <<>>)
        /\ (s.frequency = "weekly") => s.weekdays # <<>>
        /\ (s.frequency = "monthly") => (s.weekdays # <<>> \/ s.monthdays # <<>>)
        /\ (s.frequency = "yearly") => s.yeardays # <<>>
        /\ (s.frequency = "once") => s.dates # <<>>}

(***************************************************************************)
(* Calendar units: Month, Year, IsoWeek, their navigation and DateIterator *)
(***************************************************************************)
days_in_year(y) == IF IsLeapYear(y) THEN 366 ELSE 365

\* date + Days::new(1), date - Days::new(1)
add_day(date) ==
    IF date.day < days_in_month(date.year, date.month)
    THEN Date(date.year, date.month, date.day + 1)
    ELSE IF date.month < 12 THEN Date(date.year, date.month + 1, 1)
    ELSE Date(date.year + 1, 1, 1)

sub_day(date) ==
    IF date.day > 1 THEN Date(date.year, date.month, date.day - 1)
    ELSE IF date.month > 1
    THEN Date(date.year, date.month - 1, days_in_month(date.year, date.month - 1))
    ELSE Date(date.year - 1, 12, 31)

\* date + Months::new(1): the same day of the next month, or its last day
add_month(date) ==
    LET y == IF date.month = 12 THEN date.year + 1 ELSE date.year
        m == IF date.month = 12 THEN 1 ELSE date.month + 1
        n == days_in_month(y, m)
    IN Date(y, m, IF date.day > n THEN n ELSE date.day)

\* NaiveDate::from_yo_opt(year, ordinal).unwrap()
from_yo(y, o) ==
    LET m == CHOOSE k \in 1..12 :
                DaysBeforeMonth(y, k) < o
                    /\ o <= DaysBeforeMonth(y, k) + days_in_month(y, k)
    IN Date(y, m, o - DaysBeforeMonth(y, m))

\* date.weekday().number_from_monday()
weekday_number(date) ==
    ((DaysBeforeYear(date.year) + ordinal(date) - 1) % 7) + 1

\* the number of weeks of an ISO year: 53 when the first of January is a
\* Thursday, or a Wednesday of a leap year
weeks_in_year(y) ==
    LET jan1 == weekday_number(Date(y, 1, 1)) IN
    IF jan1 = 4 \/ (jan1 = 3 /\ IsLeapYear(y)) THEN 53 ELSE 52

IsoWeek(y, w) == [year |-> y, week |-> w]

\* date.iso_week()
iso_week(date) ==
    LET w == (ordinal(date) - weekday_number(date) + 10) \div 7 IN
    IF w < 1 THEN IsoWeek(date.year - 1, weeks_in_year(date.year - 1))
    ELSE IF w > weeks_in_year(date.year) THEN IsoWeek(date.year + 1, 1)
    ELSE IsoWeek(date.year, w)

\* NaiveDate::from_isoywd_opt(year, week, weekday).unwrap(), the weekday by
\* its number from Monday
from_isoywd(y, w, wd) ==
    LET o == w * 7 + wd - (weekday_number(Date(y, 1, 4)) + 3) IN
    IF o < 1 THEN from_yo(y - 1, o + days_in_year(y - 1))
    ELSE IF o > days_in_year(y) THEN from_yo(y + 1, o - days_in_year(y))
    ELSE from_yo(y, o)

\* a u32 as its top bit and its lower 31 bits: the value is hi * 2^31 + lo
U32(hi, lo) == [hi |-> hi, lo |-> lo]
I32Max == 2147483647

\* Months::new(n), for n below 2^31
MonthsNew(n) == U32(0, n)

\* u32::cast_signed
cast_signed(v) == IF v.hi = 0 THEN v.lo ELSE (v.lo - I32Max) - 1

\* k + v in u32, for k in 0..11: whether it passes 2^32 - 1, and the sum
\* modulo 2^32
u32_add_overflows(k, v) == v.hi = 1 /\ v.lo > I32Max - k
u32_add(k, v) ==
    IF v.lo > I32Max - k
    THEN U32(1 - v.hi, (v.lo - (I32Max - k)) - 1)
    ELSE U32(v.hi, v.lo + k)

\* u32::div_euclid(12), u32::rem_euclid(12); 2^31 = 12 * 178956970 + 8
u32_div12(v) ==
    IF v.hi = 0 THEN v.lo \div 12
    ELSE 178956970 + (v.lo \div 12) + (((v.lo % 12) + 8) \div 12)
u32_rem12(v) ==
    IF v.hi = 0 THEN v.lo % 12 ELSE ((v.lo % 12) + 8) % 12

Month(y, m) == [year |-> y, month |-> m]

\* Add<Months> for Month: whether self.month - 1 + rhs.as_u32() overflows
\* (a panic with overflow checks, a wrapped sum without), and the result
month_add_overflows(m, rhs) == u32_add_overflows(m.month - 1, rhs)
month_add(m, rhs) ==
    LET month == u32_add(m.month - 1, rhs) IN
    Month(m.year + u32_div12(month), u32_rem12(month) + 1)

\* k - c in i32, for k in 0..11: whether it passes 2^31 - 1, and the
\* difference modulo 2^32
i32_sub_overflows(k, c) == c <= (k - I32Max) - 1
i32_sub(k, c) ==
    IF i32_sub_overflows(k, c)
    THEN ((k - I32Max) - 1) - ((c + I32Max) + 1)
    ELSE k - c

\* Sub<Months> for Month: whether
\* self.month.cast_signed() - 1 - rhs.as_u32().cast_signed() overflows, and
\* the result
month_sub_overflows(m, rhs) == i32_sub_overflows(m.month - 1, cast_signed(rhs))
month_sub(m, rhs) ==
    LET month == i32_sub(m.month - 1, cast_signed(rhs)) IN
    Month(m.year + (month \div 12), (month % 12) + 1)

\* ToDateIterator for IsoWeek, Month and Year
week_first(w) == from_isoywd(w.year, w.week, 1)
week_last(w) == from_isoywd(w.year, w.week, 7)
month_first(m) == Date(m.year, m.month, 1)
month_last(m) == sub_day(add_month(month_first(m)))
year_first(y) == Month(y, 1)
year_last(y) == Month(y, 12)

\* Navigation for NaiveDate, Month and IsoWeek
date_next(date) == add_day(date)
date_prev(date) == sub_day(date)
month_next(m) == month_add(m, MonthsNew(1))
month_prev(m) == month_sub(m, MonthsNew(1))

\* mutant: the week after is the next number of the same year
week_next_sameYear(w) == IsoWeek(w.year, w.week + 1)

week_next(w) == iso_week(add_day(week_last(w)))
week_prev(w) == iso_week(sub_day(week_first(w)))

\* the order of Month: by year, then by month
MonthLt(a, b) == a.year < b.year \/ (a.year = b.year /\ a.month < b.month)
DateLt(a, b) == DateLe(a, b) /\ a # b

\* a unit that can be iterated: an ISO week or a month, of dates, or a year,
\* of months
WeekUnit(w) == [kind |-> "week", year |-> w.year, n |-> w.week]
MonthUnit(m) == [kind |-> "month", year |-> m.year, n |-> m.month]
YearUnit(y) == [kind |-> "year", year |-> y, n |-> 0]
NoUnit == [kind |-> "none", year |-> 0, n |-> 0]

unit_first(u) ==
    CASE u.kind = "week" -> week_first(IsoWeek(u.year, u.n))
      [] u.kind = "month" -> month_first(Month(u.year, u.n))
      [] u.kind = "year" -> year_first(u.year)

unit_last(u) ==
    CASE u.kind = "week" -> week_last(IsoWeek(u.year, u.n))
      [] u.kind = "month" -> month_last(Month(u.year, u.n))
      [] u.kind = "year" -> year_last(u.year)

element_next(u, e) == IF u.kind = "year" THEN month_next(e) ELSE date_next(e)
element_prev(u, e) == IF u.kind = "year" THEN month_prev(e) ELSE date_prev(e)
element_lt(u, a, b) == IF u.kind = "year" THEN MonthLt(a, b) ELSE DateLt(a, b)

\* mutant: the element after the last one is yielded too
iterator_next_pastLast(u, current) ==
    IF current = None
    THEN [current |-> Some(unit_first(u)), item |-> Some(unit_first(u))]
    ELSE IF ~element_lt(u, unit_last(u), current[1])
    THEN [current |-> Some(element_next(u, current[1])),
          item |-> Some(element_next(u, current[1]))]
    ELSE [current |-> current, item |-> None]

\* Iterator::next for DateIterator: the cursor afterwards and the item
iterator_next(u, current) ==
    IF current = None
    THEN [current |-> Some(unit_first(u)), item |-> Some(unit_first(u))]
    ELSE IF element_lt(u, current[1], unit_last(u))
    THEN [current |-> Some(element_next(u, current[1])),
          item |-> Some(element_next(u, current[1]))]
    ELSE [current |-> current, item |-> None]

\* DoubleEndedIterator::next_back for DateIterator
iterator_next_back(u, current) ==
    IF current = None
    THEN [current |-> Some(unit_last(u)), item |-> Some(unit_last(u))]
    ELSE IF element_lt(u, unit_first(u), current[1])
    THEN [current |-> Some(element_prev(u, current[1])),
          item |-> Some(element_prev(u, current[1]))]
    ELSE [current |-> current, item |-> None]

\* the units and the counts of months the calendar functions are applied to:
\* the months of a leap year, a common year, a century that is no leap year
\* and one that is, the ISO weeks that hold a date of Years, among them the
\* week 53 of 2026 and the week 1 of 2025
CalendarYears == {1900, 2000, 2024, 2026}
MonthInputs == {Month(y, m) : <<y, m>> \in CalendarYears \X (1..12)}
WeekInputs == {iso_week(d) : d \in Dates}
Units ==
    {WeekUnit(w) : w \in WeekInputs} \cup {MonthUnit(m) : m \in MonthInputs}
        \cup {YearUnit(y) : y \in CalendarYears}
MonthCounts ==
    {MonthsNew(n) : n \in {0, 1, 11, 12, 13, 25}}
        \cup {U32(0, I32Max), U32(1, 0), U32(1, I32Max)}

(***************************************************************************)
(* Add for Content: the merge of two documents whose properties are a list *)
(***************************************************************************)
Property(key, value) == [key |-> key, value |-> value]

\* mutant: the value of the target is kept
Property_update_keep(self, rhs) == self

\* Property::update
Property_update(self, rhs) ==
    IF self.key = rhs.key THEN [self EXCEPT !.value = rhs.value] ELSE self

\* self.properties.iter_mut().find(|l| l.key == line.key): the position of
\* the first property with the key, 0 for none
find_key(props, key) ==
    LET found == {i \in 1..Len(props) : props[i].key = key} IN
    IF found = {} THEN 0
    ELSE CHOOSE i \in found : \A j \in found : i <= j

\* the loop over rhs.properties
RECURSIVE add_properties(_, _)
add_properties(props, lines) ==
    IF lines = <<>> THEN props
    ELSE LET line == Head(lines)
             i == find_key(props, line.key)
         IN add_properties(
                IF i > 0 THEN [props EXCEPT ![i] = Property_update(@, line)]
                ELSE Append(props, line),
                Tail(lines))

\* the loop over rhs.entries
RECURSIVE add_entries(_, _)
add_entries(entries, lines) ==
    IF lines = <<>> THEN entries
    ELSE add_entries(
            IF \A i \in 1..Len(entries) : entries[i] # Head(lines)
            THEN Append(entries, Head(lines))
            ELSE entries,
            Tail(lines))

\* Add for Content
content_add(self, rhs) ==
    [properties |-> add_properties(self.properties, rhs.properties),
     entries |-> add_entries(self.entries, rhs.entries)]

\* the documents that are merged: lists of up to MaxProperties properties,
\* a key more than once among them, and of up to MaxEntries entries, a line
\* and a code block that holds the same line
SeqsUpTo(S, n) == UNION {[1..k -> S] : k \in 0..n}
MergeProperties ==
    {Property("k1", "a"), Property("k1", "b"), Property("k2", "a")}
MergeEntries == {Line(Txt("x")), CodeBlock("", <<Txt("x")>>)}
MergeContents ==
    [properties : SeqsUpTo(MergeProperties, MaxProperties),
     entries : SeqsUpTo(MergeEntries, MaxEntries)]

(***************************************************************************)
(* Preparer::run                                                           *)
(***************************************************************************)
Year(y) == [year |-> y]
PageKinds == {"day", "week", "month", "year"}

\* mutant: the loop runs once more, for the day after `to`
loop_continues_inclusive(date, to) == DateLe(date, to)

\* while date < self.to
loop_continues(date, to) == DateLt(date, to)

\* the date n days after a date
RECURSIVE add_days(_, _)
add_days(date, n) == IF n = 0 THEN date ELSE add_days(add_day(date), n - 1)

\* the runs: a range of up to MaxSpan days after one of the first dates,
\* which stand before the end of a year that is the end of an ISO week of
\* the next year, before the 29th of February, in the middle of a month and
\* before the end of a year of 53 weeks; each kind of page with or without
\* settings
RunStarts ==
    {Date(2024, 12, 28), Date(2024, 2, 27), Date(2026, 6, 10), Date(2026, 12, 30)}
Jobs ==
    {[from |-> d, to |-> add_days(d, n), enabled |-> e] :
        d \in RunStarts, n \in 0..MaxSpan, e \in SUBSET PageKinds}
NoJob == [from |-> NoDate, to |-> NoDate, enabled |-> {}]
NoRun == [pc |-> "idle", first |-> TRUE, date |-> NoDate,
          week |-> IsoWeek(0, 0), month |-> Month(0, 0), year |-> Year(0)]

(***************************************************************************)
(* State                                                                   *)
(***************************************************************************)
VARIABLES
    file,       \* the page file on disk: absent, or its text
    dir,        \* whether the parent directory of the page file exists
    pc,         \* "idle": no Page value; "open": a Page used directly;
                \* "closure": inside the closure of Vault::update;
                \* "rerun": the caller repeats the calls made since the load;
                \* "failed": Page::write has returned an error
    page,       \* the Page value: exists, modified, content
    dirty,      \* history: a mutation since the load or the last successful
                \*   write changed the content
    last,       \* history: the last call, its arguments and its result
    log,        \* history: insert_property / prepend_line calls since the load
    written,    \* history: Len(log) at the last successful write, else -1
    snap,       \* history: the content at the last successful write
    idx,        \* number of logged calls repeated so far by the rerun
    added,      \* history: lines prepend_line added since the load
    onDisk,     \* history: added lines that a successful write put on disk
    prior,      \* history: onDisk as it was when the page was loaded
    tokenLines, \* history: a delimiter or fence line was handed to prepend_line
    failedRun,  \* a load or a write of this run has returned an error
    nops, nloads,
    serde,      \* the SerdeRecurrence handed to Recurrence::try_from
    rec,        \* the result of Recurrence::try_from
    event,      \* validity and exceptions of the event that holds rec
    query,      \* the last matching call: its name, its date, its result
    unit,       \* the calendar unit the calendar functions are applied to
    current,    \* DateIterator.current of the iterator over unit
    yielded,    \* history: the calls made on the iterator and their items
    nav,        \* the month or week reached from unit by arithmetic and
                \*   navigation: the calls made, the value, a panic
    lhs,        \* the document that rhs is merged into, as it is now
    rhs,        \* the document that is merged into lhs
    merged,     \* history: the merges made, lhs before the first one and
                \*   before the last one
    job,        \* the Preparer: from, to, the kinds of page that have settings
    run,        \* Preparer::run: its position and its local variables
    printed     \* history: the print_* calls made, in order

pageVars == <<file, dir, pc, page, dirty, last, log, written, snap, idx,
              added, onDisk, prior, tokenLines, nops, nloads, failedRun>>
recVars == <<serde, rec, event, query>>
calVars == <<unit, current, yielded, nav>>
mergeVars == <<lhs, rhs, merged>>
runVars == <<job, run, printed>>
vars == <<pageVars, recVars, calVars, mergeVars, runVars>>
notPage == <<recVars, calVars, mergeVars, runVars>>
notRec == <<pageVars, calVars, mergeVars, runVars>>
notCal == <<pageVars, recVars, mergeVars, runVars>>
notMerge == <<pageVars, recVars, calVars, runVars>>
notRun == <<pageVars, recVars, calVars, mergeVars>>

NoPage == [exists |-> FALSE, modified |-> FALSE, content |-> DefaultContent]

NoLast ==
    [op |-> "none", key |-> "", value |-> "", line |-> Txt(""), batch |-> <<>>,
     ret |-> FALSE, ok |-> TRUE, err |-> "", wrote |-> FALSE,
     before |-> NoPage, fileBefore |-> NoFile, dirBefore |-> FALSE]

Call(op) == [NoLast EXCEPT !.op = op, !.before = page,
                           !.fileBefore = file, !.dirBefore = dir]

(***************************************************************************)
(* Page                                                                    *)
(***************************************************************************)
\* TryFrom<PathBuf> for Page; readable is whether read_to_string succeeds
PageTryFrom(f, readable) ==
    IF f.present
    THEN LET r == Parse(f.text) IN
         IF ~readable THEN [ok |-> FALSE, err |-> "ReadingFile", page |-> NoPage]
         ELSE IF r.ok
         THEN [ok |-> TRUE, err |-> "",
               page |-> [exists |-> TRUE, modified |-> FALSE, content |-> r.content]]
         ELSE [ok |-> FALSE, err |-> r.err, page |-> NoPage]
    ELSE [ok |-> TRUE, err |-> "",
          page |-> [exists |-> FALSE, modified |-> FALSE, content |-> DefaultContent]]

\* Page::insert_property
PageInsertProperty(p, key, value) ==
    LET r == insert_property(p.content, key, value) IN
    [p EXCEPT !.content = r.content,
              !.modified = IF r.ret THEN TRUE ELSE @]

\* mutant: the flag is set whatever prepend_unique_entry returns
PagePrependLine_flag(p, line) ==
    [p EXCEPT !.content = prepend_unique_entry(p.content, Line(line)).content,
              !.modified = TRUE]

\* Page::prepend_line
PagePrependLine(p, line) ==
    LET r == prepend_unique_entry(p.content, Line(line)) IN
    [p EXCEPT !.content = r.content,
              !.modified = IF r.ret THEN TRUE ELSE @]

\* mutant: the lines are taken from the first to the last
RECURSIVE PagePrependLines_forward(_, _, _)
PagePrependLines_forward(p, lines, i) ==
    IF i = 0 THEN p
    ELSE PagePrependLines_forward(PagePrependLine(p, lines[Len(lines) + 1 - i]),
                                  lines, i - 1)

\* Page::prepend_lines: prepend_line on the lines in reverse order
RECURSIVE PagePrependLines(_, _, _)
PagePrependLines(p, lines, i) ==
    IF i = 0 THEN p
    ELSE PagePrependLines(PagePrependLine(p, lines[i]), lines, i - 1)

\* mutant: the flags are set before the file is created and written
WriteOutcomes_flagsFirst(p, f, d) ==
    LET text == Render(p.content)
        q == [p EXCEPT !.exists = TRUE, !.modified = FALSE]
    IN
    {[ok |-> TRUE, err |-> "", page |-> q, file |-> FileOf(text), dir |-> TRUE]}
    \cup (IF d THEN {}
          ELSE {[ok |-> FALSE, err |-> "CreatingDir", page |-> p, file |-> f, dir |-> d]})
    \cup {[ok |-> FALSE, err |-> "CreatingFile", page |-> q, file |-> f, dir |-> TRUE]}
    \cup {[ok |-> FALSE, err |-> "WritingFile", page |-> q,
           file |-> FileOf(SubSeq(text, 1, n)), dir |-> TRUE]
            : n \in 0..(Len(text) - 1)}

\* Page::write: every way the call can end. A failure to create the directory
\* or the file changes nothing but the directory; a failure while writing
\* leaves a created file holding a proper prefix of the text.
WriteOutcomes(p, f, d) ==
    LET text == Render(p.content) IN
    {[ok |-> TRUE, err |-> "",
      page |-> [p EXCEPT !.exists = TRUE, !.modified = FALSE],
      file |-> FileOf(text), dir |-> TRUE]}
    \cup (IF d THEN {}
          ELSE {[ok |-> FALSE, err |-> "CreatingDir", page |-> p, file |-> f, dir |-> d]})
    \cup {[ok |-> FALSE, err |-> "CreatingFile", page |-> p, file |-> f, dir |-> TRUE]}
    \cup {[ok |-> FALSE, err |-> "WritingFile", page |-> p,
           file |-> FileOf(SubSeq(text, 1, n)), dir |-> TRUE]
            : n \in 0..(Len(text) - 1)}

\* mutant: the page is written whatever the flag says
ShouldWrite_always(p) == TRUE

\* Vault::update: `if page.modified()`
ShouldWrite(p) == p.modified

(***************************************************************************)
(* History bookkeeping                                                     *)
(***************************************************************************)
LogInsert(key, value) ==
    [op |-> "insert_property", key |-> key, value |-> value, line |-> Txt("")]
LogPrepend(line) ==
    [op |-> "prepend_line", key |-> "", value |-> "", line |-> line]

Reverse(s) == [i \in 1..Len(s) |-> s[Len(s) + 1 - i]]
LogPrependAll(lines) == [i \in 1..Len(lines) |-> LogPrepend(Reverse(lines)[i])]

IsTokenLine(t) == t.k \in {"delim", "fence"}

LineEntries(c) == {c.entries[i].line : i \in {j \in 1..Len(c.entries) : c.entries[j].type = "Line"}}

\* the history after a call that turned page p into page q
Mutated(p, q, entry) ==
    /\ dirty' = (dirty \/ q.content # p.content)
    /\ added' = added \cup (LineEntries(q.content) \ LineEntries(p.content))
    /\ log' = log \o entry

(***************************************************************************)
(* Actions of the page machine                                             *)
(***************************************************************************)
Opened(r, op, target) ==
    /\ nloads' = nloads + 1
    /\ last' = [Call(op) EXCEPT !.ok = r.ok, !.err = r.err]
    /\ page' = r.page
    /\ pc' = IF r.ok THEN target ELSE "idle"
    /\ dirty' = FALSE
    /\ log' = <<>>
    /\ written' = -1
    /\ snap' = DefaultContent
    /\ idx' = 0
    /\ added' = {}
    /\ prior' = IF r.ok THEN onDisk ELSE {}
    /\ failedRun' = ~r.ok
    /\ UNCHANGED <<file, dir, onDisk, tokenLines, nops>>

\* every caller hands an error of try_from or write on (`?` up to main): the
\* page is not used again and no page is loaded after it
Running == ~failedRun

\* Page::try_from(path), called directly
Load ==
    /\ pc = "idle"
    /\ Running
    /\ nloads < MaxLoads
    /\ \E readable \in BOOLEAN : Opened(PageTryFrom(file, readable), "load", "open")

\* Vault::update up to the call of the closure
UpdateBegin ==
    /\ pc = "idle"
    /\ Running
    /\ nloads < MaxLoads
    /\ \E readable \in BOOLEAN :
            Opened(PageTryFrom(file, readable), "update_begin", "closure")

InsertProperty(key, value) ==
    /\ pc \in {"open", "closure"}
    /\ nops < MaxOps
    /\ page' = PageInsertProperty(page, key, value)
    /\ last' = [Call("insert_property") EXCEPT
                    !.key = key, !.value = value,
                    !.ret = insert_property(page.content, key, value).ret]
    /\ Mutated(page, page', <<LogInsert(key, value)>>)
    /\ nops' = nops + 1
    /\ UNCHANGED <<file, dir, pc, written, snap, idx, onDisk, prior,
                   tokenLines, nloads, failedRun>>

PrependLine(line) ==
    /\ pc \in {"open", "closure"}
    /\ nops < MaxOps
    /\ page' = PagePrependLine(page, line)
    /\ last' = [Call("prepend_line") EXCEPT
                    !.line = line,
                    !.ret = prepend_unique_entry(page.content, Line(line)).ret]
    /\ Mutated(page, page', <<LogPrepend(line)>>)
    /\ tokenLines' = (tokenLines \/ IsTokenLine(line))
    /\ nops' = nops + 1
    /\ UNCHANGED <<file, dir, pc, written, snap, idx, onDisk, prior,
                   nloads, failedRun>>

PrependLines(lines) ==
    /\ pc \in {"open", "closure"}
    /\ nops + Cost(lines) <= MaxOps
    /\ page' = PagePrependLines(page, lines, Len(lines))
    /\ last' = [Call("prepend_lines") EXCEPT !.batch = lines]
    /\ Mutated(page, page', LogPrependAll(lines))
    /\ tokenLines' = (tokenLines \/ \E i \in 1..Len(lines) : IsTokenLine(lines[i]))
    /\ nops' = nops + Cost(lines)
    /\ UNCHANGED <<file, dir, pc, written, snap, idx, onDisk, prior,
                   nloads, failedRun>>

\* the effect of one outcome o of Page::write on the disk and the history
Wrote(o) ==
    /\ failedRun' = ~o.ok
    /\ file' = o.file
    /\ dir' = o.dir
    /\ onDisk' = IF o.ok THEN onDisk \cup added
                 ELSE IF o.file = file THEN onDisk ELSE {}

\* Page::write, called directly
Write ==
    /\ pc = "open"
    /\ \E o \in WriteOutcomes(page, file, dir) :
        /\ Wrote(o)
        /\ page' = o.page
        /\ last' = [Call("write") EXCEPT !.ok = o.ok, !.err = o.err, !.wrote = TRUE]
        /\ dirty' = IF o.ok THEN FALSE ELSE dirty
        /\ written' = IF o.ok THEN Len(log) ELSE written
        /\ snap' = IF o.ok THEN page.content ELSE snap
        /\ pc' = IF o.ok THEN "open" ELSE "failed"
    /\ UNCHANGED <<log, idx, added, prior, tokenLines, nops, nloads>>

\* Vault::update after the closure has returned the page
UpdateEnd ==
    /\ pc = "closure"
    /\ IF ShouldWrite(page)
       THEN \E o \in WriteOutcomes(page, file, dir) :
                /\ Wrote(o)
                /\ last' = [Call("update") EXCEPT !.ok = o.ok, !.err = o.err, !.wrote = TRUE]
       ELSE /\ last' = Call("update")
            /\ UNCHANGED <<file, dir, onDisk, failedRun>>
    /\ pc' = "idle"
    /\ page' = NoPage
    /\ dirty' = FALSE
    /\ UNCHANGED <<log, written, snap, idx, added, prior, tokenLines, nops, nloads>>

\* the caller repeats, in order, the calls it made between the load and a
\* write that has just succeeded
RerunStep ==
    /\ pc \in {"open", "rerun"}
    /\ written = Len(log)
    /\ idx < Len(log)
    /\ LET c == log[idx + 1] IN
        /\ page' = IF c.op = "insert_property"
                   THEN PageInsertProperty(page, c.key, c.value)
                   ELSE PagePrependLine(page, c.line)
        /\ last' = IF c.op = "insert_property"
                   THEN [Call("insert_property") EXCEPT
                            !.key = c.key, !.value = c.value,
                            !.ret = insert_property(page.content, c.key, c.value).ret]
                   ELSE [Call("prepend_line") EXCEPT
                            !.line = c.line,
                            !.ret = prepend_unique_entry(page.content, Line(c.line)).ret]
    /\ dirty' = (dirty \/ page'.content # page.content)
    /\ added' = added \cup (LineEntries(page'.content) \ LineEntries(page.content))
    /\ idx' = idx + 1
    /\ pc' = "rerun"
    /\ UNCHANGED <<file, dir, log, written, snap, onDisk, prior, tokenLines,
                   nops, nloads, failedRun>>

\* the Page value goes out of scope
Drop ==
    /\ pc \in {"open", "rerun", "failed"}
    /\ pc' = "idle"
    /\ page' = NoPage
    /\ last' = Call("drop")
    /\ dirty' = FALSE
    /\ UNCHANGED <<file, dir, log, written, snap, idx, added, onDisk, prior,
                   tokenLines, nops, nloads, failedRun>>

NoQuery == [op |-> "none", date |-> NoDate, result |-> FALSE, panicked |-> FALSE]

RecIdle == [frequency |-> "daily", weekdays |-> <<>>, monthdays |-> <<>>,
            yeardays |-> <<>>, dates |-> <<>>, index |-> "none"]

\* the variables of a machine that does not run
PageIdle ==
    /\ file = NoFile
    /\ dir = FALSE
    /\ pc = "idle"
    /\ page = NoPage
    /\ dirty = FALSE
    /\ last = NoLast
    /\ log = <<>>
    /\ written = -1
    /\ snap = DefaultContent
    /\ idx = 0
    /\ added = {}
    /\ onDisk = {}
    /\ prior = {}
    /\ tokenLines = FALSE
    /\ nops = 0
    /\ nloads = 0
    /\ failedRun = FALSE

RecurrenceIdle ==
    /\ serde = RecIdle
    /\ rec = Pending
    /\ event = DefaultEvent
    /\ query = NoQuery

NoNav(u) == [path |-> <<>>, value |-> u, panicked |-> FALSE, days |-> 0]

CalIdle ==
    /\ unit = NoUnit
    /\ current = None
    /\ yielded = <<>>
    /\ nav = NoNav(NoUnit)

NotMerged(c) == [count |-> 0, target |-> c, prev |-> c]

MergeIdle ==
    /\ lhs = DefaultContent
    /\ rhs = DefaultContent
    /\ merged = NotMerged(DefaultContent)

RunIdle ==
    /\ job = NoJob
    /\ run = NoRun
    /\ printed = <<>>

Init ==
    /\ file \in {NoFile} \cup {FileOf(t) : t \in InitialTexts}
    /\ dir \in (IF file.present THEN {TRUE} ELSE BOOLEAN)
    /\ pc = "idle"
    /\ page = NoPage
    /\ dirty = FALSE
    /\ last = NoLast
    /\ log = <<>>
    /\ written = -1
    /\ snap = DefaultContent
    /\ idx = 0
    /\ added = {}
    /\ onDisk = {}
    /\ prior = {}
    /\ tokenLines = FALSE
    /\ nops = 0
    /\ nloads = 0
    /\ failedRun = FALSE
    /\ RecurrenceIdle
    /\ CalIdle
    /\ MergeIdle
    /\ RunIdle

Next ==
    \/ Load /\ UNCHANGED notPage
    \/ UpdateBegin /\ UNCHANGED notPage
    \/ (\E key \in Keys, value \in Values : InsertProperty(key, value)) /\ UNCHANGED notPage
    \/ (\E line \in LineInputs : PrependLine(line)) /\ UNCHANGED notPage
    \/ (\E lines \in BatchInputs : PrependLines(lines)) /\ UNCHANGED notPage
    \/ Write /\ UNCHANGED notPage
    \/ UpdateEnd /\ UNCHANGED notPage
    \/ RerunStep /\ UNCHANGED notPage
    \/ Drop /\ UNCHANGED notPage

Spec == Init /\ [][Next]_vars

(***************************************************************************)
(* The construction of a recurrence                                        *)
(***************************************************************************)
\* Recurrence::try_from(serde)
Construct ==
    /\ ~rec.done
    /\ rec' = TryFromSerde(serde)
    /\ UNCHANGED <<serde, event, query>>

InitRec ==
    /\ serde \in SerdeRecurrences
    /\ rec = Pending
    /\ event = DefaultEvent
    /\ query = NoQuery
    /\ PageIdle
    /\ CalIdle
    /\ MergeIdle
    /\ RunIdle

NextRec == Construct /\ UNCHANGED notRec

SpecRec == InitRec /\ [][NextRec]_vars

(***************************************************************************)
(* An event and the questions asked of it                                  *)
(***************************************************************************)
\* the three functions take &self and change nothing: one question is
\* followed in each behaviour
Asked(op, date, result, panicked) ==
    /\ query' = [op |-> op, date |-> date, result |-> ~panicked /\ result,
                 panicked |-> panicked]
    /\ UNCHANGED <<serde, rec, event>>

\* recurrence.matches(date), on a recurrence that was constructed
RecurrenceMatches ==
    /\ query = NoQuery
    /\ rec.done /\ rec.ok
    /\ \E date \in Dates : Asked("Recurrence::matches", date, matches(rec, date),
                                 matches_panics(rec, date))

\* validity.contains(date), on the validity of an event that was constructed
RangeContains ==
    /\ query = NoQuery
    /\ rec.done /\ rec.ok
    /\ \E date \in Dates :
            Asked("DateRange::contains", date, contains(event.validity, date),
                  FALSE)

\* event.matches(date), on an event that was constructed
EventMatchesCall ==
    /\ query = NoQuery
    /\ rec.done /\ rec.ok
    /\ \E date \in Dates :
            Asked("Event::matches", date, EventMatches(event, rec, date),
                  EventMatches_panics(event, rec, date))

\* Event::try_from(SerdeEvent) constructs the recurrence and keeps validity
\* and exceptions as read
InitEvt ==
    /\ serde \in EventRecurrences
    /\ rec = Pending
    /\ event \in Events
    /\ query = NoQuery
    /\ PageIdle
    /\ CalIdle
    /\ MergeIdle
    /\ RunIdle

NextEvt ==
    \/ Construct /\ UNCHANGED notRec
    \/ RecurrenceMatches /\ UNCHANGED notRec
    \/ RangeContains /\ UNCHANGED notRec
    \/ EventMatchesCall /\ UNCHANGED notRec

SpecEvt == InitEvt /\ [][NextEvt]_vars

(***************************************************************************)
(* The calendar machine: one unit, either iterated or navigated from       *)
(***************************************************************************)
Called(call, r) ==
    /\ current' = r.current
    /\ yielded' = Append(yielded, [call |-> call, item |-> r.item])
    /\ UNCHANGED <<unit, nav>>

\* unit.iter().next()
IterNext ==
    /\ unit # NoUnit /\ nav.path = <<>>
    /\ Len(yielded) < MaxCalls
    /\ Called("next", iterator_next(unit, current))

\* unit.iter().next_back()
IterNextBack ==
    /\ unit # NoUnit /\ nav.path = <<>>
    /\ Len(yielded) < MaxBackCalls
    /\ Called("next_back", iterator_next_back(unit, current))

CanNavigate(kind) ==
    /\ unit.kind = kind /\ yielded = <<>>
    /\ Len(nav.path) < MaxNav /\ ~nav.panicked /\ nav.days = 0

NavMonth == Month(nav.value.year, nav.value.n)
NavWeek == IsoWeek(nav.value.year, nav.value.n)

Navigated(op, count, value) ==
    /\ nav' = [nav EXCEPT !.path = Append(@, [op |-> op, count |-> count]),
                          !.value = value]
    /\ UNCHANGED <<unit, current, yielded>>

Panicked(op, count) ==
    /\ nav' = [nav EXCEPT !.path = Append(@, [op |-> op, count |-> count]),
                          !.panicked = TRUE]
    /\ UNCHANGED <<unit, current, yielded>>

\* month + Months(count): an overflow of the u32 sum panics in a build with
\* overflow checks and wraps in one without
MonthAdd(count) ==
    /\ CanNavigate("month")
    /\ \/ Navigated("add", count, MonthUnit(month_add(NavMonth, count)))
       \/ month_add_overflows(NavMonth, count) /\ Panicked("add", count)

\* month - Months(count)
MonthSub(count) ==
    /\ CanNavigate("month")
    /\ \/ Navigated("sub", count, MonthUnit(month_sub(NavMonth, count)))
       \/ month_sub_overflows(NavMonth, count) /\ Panicked("sub", count)

\* month.next(), month.prev()
MonthNext ==
    CanNavigate("month")
        /\ Navigated("next", MonthsNew(1), MonthUnit(month_next(NavMonth)))
MonthPrev ==
    CanNavigate("month")
        /\ Navigated("prev", MonthsNew(1), MonthUnit(month_prev(NavMonth)))

\* month.num_days()
NumDays ==
    /\ CanNavigate("month")
    /\ nav' = [nav EXCEPT !.path = Append(@, [op |-> "num_days", count |-> MonthsNew(0)]),
                          !.days = num_days(NavMonth)]
    /\ UNCHANGED <<unit, current, yielded>>

\* week.next(), week.prev()
WeekNext ==
    CanNavigate("week")
        /\ Navigated("next", MonthsNew(0), WeekUnit(week_next(NavWeek)))
WeekPrev ==
    CanNavigate("week")
        /\ Navigated("prev", MonthsNew(0), WeekUnit(week_prev(NavWeek)))

InitCal ==
    /\ unit \in Units
    /\ current = None
    /\ yielded = <<>>
    /\ nav = NoNav(unit)
    /\ PageIdle
    /\ RecurrenceIdle
    /\ MergeIdle
    /\ RunIdle

NextCal ==
    \/ IterNext /\ UNCHANGED notCal
    \/ IterNextBack /\ UNCHANGED notCal
    \/ (\E count \in MonthCounts : MonthAdd(count)) /\ UNCHANGED notCal
    \/ (\E count \in MonthCounts : MonthSub(count)) /\ UNCHANGED notCal
    \/ MonthNext /\ UNCHANGED notCal
    \/ MonthPrev /\ UNCHANGED notCal
    \/ NumDays /\ UNCHANGED notCal
    \/ WeekNext /\ UNCHANGED notCal
    \/ WeekPrev /\ UNCHANGED notCal

SpecCal == InitCal /\ [][NextCal]_vars

(***************************************************************************)
(* The merge machine: rhs is added to a target, more than once             *)
(***************************************************************************)
\* lhs = lhs + rhs
Merge ==
    /\ merged.count < MaxMerges
    /\ lhs' = content_add(lhs, rhs)
    /\ merged' = [merged EXCEPT !.count = @ + 1, !.prev = lhs]
    /\ UNCHANGED rhs

InitMerge ==
    /\ lhs \in MergeContents
    /\ rhs \in MergeContents
    /\ merged = NotMerged(lhs)
    /\ PageIdle
    /\ RecurrenceIdle
    /\ CalIdle
    /\ RunIdle

NextMerge == Merge /\ UNCHANGED notMerge

SpecMerge == InitMerge /\ [][NextMerge]_vars

(***************************************************************************)
(* The run machine: Preparer::run, one step for each print_* call and one  *)
(* for each test of the loop                                               *)
(***************************************************************************)
\* a print_* call: without settings for the kind it returns at once; with
\* settings it calls Vault::update for the page of the unit, and an error of
\* the update ends the run
print_call(kind, u, ok, next) ==
    /\ printed' = Append(printed,
            [kind |-> kind, unit |-> u, updated |-> kind \in job.enabled, ok |-> ok])
    /\ next.pc \in {"day", "week", "month", "year", "loop"}
    /\ run' = IF ok THEN next ELSE [next EXCEPT !.pc = "failed"]
    /\ UNCHANGED job

Outcomes(kind) == IF kind \in job.enabled THEN BOOLEAN ELSE {TRUE}

\* let mut date = self.from; ...; self.print_day(date)?
RunBegin ==
    /\ run.pc = "idle" /\ job # NoJob
    /\ \E ok \in Outcomes("day") :
            print_call("day", job.from, ok,
                  [pc |-> "week", first |-> TRUE, date |-> job.from,
                   week |-> iso_week(job.from), month |-> MonthOf(job.from),
                   year |-> Year(job.from.year)])

\* the test of the loop, date = date + Days::new(1) and print_day(date)
print_day ==
    /\ run.pc = "loop"
    /\ IF loop_continues(run.date, job.to)
       THEN \E ok \in Outcomes("day") :
                print_call("day", add_day(run.date), ok,
                      [run EXCEPT !.pc = "week", !.date = add_day(run.date)])
       ELSE run' = [run EXCEPT !.pc = "done"] /\ UNCHANGED <<job, printed>>

\* print_week(week) before the loop; in the loop print_week(new_week) when
\* the week of the date is another one
print_week ==
    /\ run.pc = "week"
    /\ LET new_week == iso_week(run.date)
           after == IF run.first THEN "month" ELSE "year"
       IN IF run.first \/ run.week # new_week
          THEN \E ok \in Outcomes("week") :
                    print_call("week", new_week, ok,
                          [run EXCEPT !.pc = after, !.week = new_week])
          ELSE run' = [run EXCEPT !.pc = after] /\ UNCHANGED <<job, printed>>

\* print_month(month) before the loop, where print_year follows it; in the
\* loop print_month(new_month) when the month of the date is another one
print_month ==
    /\ run.pc = "month"
    /\ LET new_month == MonthOf(run.date)
           after == IF run.first THEN "year" ELSE "loop"
       IN IF run.first \/ run.month # new_month
          THEN \E ok \in Outcomes("month") :
                    print_call("month", new_month, ok,
                          [run EXCEPT !.pc = after, !.month = new_month])
          ELSE run' = [run EXCEPT !.pc = after] /\ UNCHANGED <<job, printed>>

\* print_year(year) before the loop, which follows it; in the loop
\* print_year(new_year) when the year of the date is another one, and the
\* month follows
print_year ==
    /\ run.pc = "year"
    /\ LET new_year == Year(run.date.year)
           after == IF run.first THEN "loop" ELSE "month"
       IN IF run.first \/ run.year # new_year
          THEN \E ok \in Outcomes("year") :
                    print_call("year", new_year, ok,
                          [run EXCEPT !.pc = after, !.year = new_year,
                                      !.first = FALSE])
          ELSE run' = [run EXCEPT !.pc = after, !.first = FALSE]
                    /\ UNCHANGED <<job, printed>>

InitRun ==
    /\ job \in Jobs
    /\ run = NoRun
    /\ printed = <<>>
    /\ PageIdle
    /\ RecurrenceIdle
    /\ CalIdle
    /\ MergeIdle

NextRun ==
    \/ RunBegin /\ UNCHANGED notRun
    \/ print_day /\ UNCHANGED notRun
    \/ print_week /\ UNCHANGED notRun
    \/ print_month /\ UNCHANGED notRun
    \/ print_year /\ UNCHANGED notRun

SpecRun == InitRun /\ [][NextRun]_vars

(***************************************************************************)
(* Properties of the page machine (checked under Spec)                     *)
(***************************************************************************)
Loaded == pc \in {"open", "closure", "rerun", "failed"}

\* C1: Vault.update calls Page::write if and only if page.modified() is true
\* after the closure has run; a page the closure left unmodified is not
\* written (the file and its directory are as before, a missing file stays
\* missing), and a modified page that is written successfully puts the
\* rendered content into the file.
C1_UpdateWritesIffModified ==
    last.op = "update" =>
        /\ last.wrote = last.before.modified
        /\ ~last.before.modified => (file = last.fileBefore /\ dir = last.dirBefore)
        /\ (last.before.modified /\ last.ok) =>
                file = FileOf(Render(last.before.content))

\* an update whose closure made calls that changed nothing has just returned
C1_Witness ==
    /\ last.op = "update"
    /\ log # <<>>
    /\ ~last.before.modified
    /\ ~last.wrote
    /\ file = last.fileBefore

\* C2: modified() is false right after a load and is afterwards true if and
\* only if a mutation since the load or the last successful write changed the
\* content.
C2_ModifiedIffContentChanged ==
    /\ (last.op \in {"load", "update_begin"} /\ last.ok) => ~page.modified
    /\ Loaded => (page.modified = dirty)

Lookup(props, key) == props[KeyIndex(props, key)].val

C4_PrependUniqueEntry ==
    last.op = "prepend_line" =>
        LET old == last.before.content.entries
            e == Line(last.line) IN
        IF \E i \in 1..Len(old) : old[i] = e
        THEN ~last.ret /\ page.content.entries = old
        ELSE last.ret /\ page.content.entries = <<e>> \o old

\* a line has been put in front of at least two older entries
C4_Witness ==
    /\ last.op = "prepend_line"
    /\ last.ret
    /\ Len(last.before.content.entries) >= 2
    /\ page.content.entries[1] = Line(last.line)

RerunDone == pc = "rerun" /\ idx = Len(log)

\* C5 as stated: after any sequence of calls and a write, repeating the
\* sequence leaves modified() false and the content as it was after the
\* first pass.
C5_RerunChangesNothing_AnySequence ==
    RerunDone => (~page.modified /\ page.content = snap)

\* no key is inserted with two different values
OneValuePerKey(calls) ==
    \A i, j \in 1..Len(calls) :
        (calls[i].op = "insert_property" /\ calls[j].op = "insert_property"
            /\ calls[i].key = calls[j].key) => calls[i].value = calls[j].value

\* C5 (amended): for every sequence of insert_property and prepend_line calls
\* that gives no key two different values, repeating the sequence after a
\* write leaves modified() false and the content as it was after the first
\* pass.
C5_RerunChangesNothing ==
    (RerunDone /\ OneValuePerKey(log)) => (~page.modified /\ page.content = snap)

\* a sequence holding both kinds of call has been repeated
C5_Witness ==
    /\ RerunDone
    /\ OneValuePerKey(log)
    /\ \E i \in 1..Len(log) : log[i].op = "insert_property"
    /\ \E i \in 1..Len(log) : log[i].op = "prepend_line"

Copies(entries, e) == Cardinality({i \in 1..Len(entries) : entries[i] = e})

PrependWasNoOp ==
    /\ ~last.ret
    /\ page.modified = last.before.modified
    /\ page.content.entries = last.before.content.entries
    /\ Copies(page.content.entries, Line(last.line)) = 1

\* C6 as stated: for every line x added by an earlier load-to-write cycle,
\* prepend_line(x) on the page reloaded from the written file is a no-op and
\* the entries hold exactly one copy of x.
C6_NoDuplicateAcrossRuns_AnyLine ==
    (last.op = "prepend_line" /\ last.line \in prior) => PrependWasNoOp

\* C6 (amended): the same for every non-empty line x, provided no line that is
\* the front-matter delimiter or starts with the fence has been handed to
\* prepend_line.
C6_NoDuplicateAcrossRuns ==
    (last.op = "prepend_line" /\ last.line \in prior
        /\ last.line # Txt("") /\ ~tokenLines) => PrependWasNoOp

\* a line added and written before the reload is prepended again
C6_Witness ==
    /\ last.op = "prepend_line"
    /\ last.line \in prior
    /\ last.line # Txt("")
    /\ ~tokenLines
    /\ nloads = 2

\* no entry text holds the front-matter delimiter or a fence
NoTokens(c) ==
    \A i \in 1..Len(c.entries) :
        /\ ~IsTokenLine(c.entries[i].line)
        /\ \A j \in 1..Len(c.entries[i].code) : ~IsTokenLine(c.entries[i].code[j])

RECURSIVE DropLeadingEmpty(_)
DropLeadingEmpty(entries) ==
    IF entries # <<>> /\ is_empty(Head(entries))
    THEN DropLeadingEmpty(Tail(entries))
    ELSE entries

\* C7 as stated: parse(render(c)) = c for every content c the page can hold,
\* provided no entry text holds the delimiter or a fence.
C7_ParseRender_Identity ==
    (Loaded /\ NoTokens(page.content)) =>
        Parse(Render(page.content)) =
            [ok |-> TRUE, err |-> "", content |-> page.content]

\* C7 (amended): under the same proviso parse(render(c)) is c without its
\* leading empty entries.
C7_ParseRender ==
    (Loaded /\ NoTokens(page.content)) =>
        Parse(Render(page.content)) =
            [ok |-> TRUE, err |-> "",
             content |-> [page.content EXCEPT !.entries = DropLeadingEmpty(@)]]

\* a mutated page with a leading empty entry and a numeric-looking string
C7_Witness ==
    /\ Loaded
    /\ nops > 0
    /\ NoTokens(page.content)
    /\ page.content.entries # <<>>
    /\ is_empty(page.content.entries[1])
    /\ \E i \in 1..Len(page.content.properties) :
            page.content.properties[i].val = StrV("1")

RenderIsFixedPoint(c) ==
    LET text == Render(c) IN
    Parse(text).ok /\ Render(Parse(text).content) = text

\* C8 as stated: every rendered text is a fixed point of parse followed by
\* render.
C8_RenderParse_AnyText == Loaded => RenderIsFixedPoint(page.content)

\* C8 (amended): the same, provided no entry text holds the delimiter or a
\* fence.
C8_RenderParse ==
    (Loaded /\ NoTokens(page.content)) => RenderIsFixedPoint(page.content)

\* a mutated page with properties, a loaded integer and a code block
C8_Witness ==
    /\ Loaded
    /\ nops > 0
    /\ NoTokens(page.content)
    /\ \E i \in 1..Len(page.content.properties) :
            page.content.properties[i].val = IntV("1")
    /\ \E i \in 1..Len(page.content.entries) :
            page.content.entries[i].type = "CodeBlock"

(***************************************************************************)
(* Properties of the recurrence construction (checked under SpecRec)       *)
(***************************************************************************)
ListFields == {"weekdays", "monthdays", "yeardays", "dates"}
NonEmptyFields(s) == {f \in ListFields : s[f] # <<>>}

FieldsOf(variant) ==
    CASE variant = "Daily" -> {}
      [] variant \in {"Weekly", "RelativeMonthly"} -> {"weekdays"}
      [] variant = "Monthly" -> {"monthdays"}
      [] variant = "Yearly" -> {"yeardays"}
      [] variant = "Once" -> {"dates"}

\* C9: every recurrence that is constructed comes from a record whose
\* non-empty list fields are exactly the fields of its variant.
C9_ExactlyTheVariantFields ==
    (rec.done /\ rec.ok) => NonEmptyFields(serde) = FieldsOf(rec.variant)

Forbidden(s) ==
    CASE s.frequency = "daily" -> NonEmptyFields(s) # {}
      [] s.frequency = "weekly" ->
            NonEmptyFields(s) \cap {"monthdays", "yeardays", "dates"} # {}
                \/ s.weekdays = <<>>
      [] s.frequency = "monthly" ->
            NonEmptyFields(s) \cap {"yeardays", "dates"} # {}
                \/ (s.weekdays = <<>> /\ s.monthdays = <<>>)
      [] s.frequency = "yearly" ->
            NonEmptyFields(s) \cap {"weekdays", "monthdays", "dates"} # {}
                \/ s.yeardays = <<>>
      [] s.frequency = "once" ->
            NonEmptyFields(s) \cap {"weekdays", "monthdays", "yeardays"} # {}
                \/ s.dates = <<>>

\* C10: construction fails and returns no recurrence whenever the record
\* holds a field its frequency does not allow or lacks the field its
\* frequency requires.
C10_ForbiddenCombinationsFail ==
    (rec.done /\ Forbidden(serde)) =>
        (~rec.ok /\ rec.variant = "none" /\ rec.err # "")

\* a weekly record with dates, in range otherwise, has been rejected
C10_Witness ==
    /\ rec.done
    /\ serde.frequency = "weekly"
    /\ serde.weekdays # <<>>
    /\ NonEmptyFields(serde) = {"weekdays", "dates"}
    /\ ~rec.ok

InRange(list, lo, hi) == \A i \in 1..Len(list) : list[i] \in lo..hi
OutOfRange(list, lo, hi) == {list[i] : i \in 1..Len(list)} \ (lo..hi)

\* the record is monthly in the day-of-month form, or yearly, and holds no
\* field its frequency does not allow
DayOfMonthForm(s) == s.frequency = "monthly" /\ NonEmptyFields(s) = {"monthdays"}
DayOfYearForm(s) == s.frequency = "yearly" /\ NonEmptyFields(s) = {"yeardays"}

\* C11: a day of the month is accepted exactly when it is one of 1..31 and a
\* day of the year exactly when it is one of 1..366; a monthly record in the
\* day-of-month form (a yearly record) with a day out of that range is
\* rejected with the invalid-day error that carries an out-of-range day, and
\* no recurrence is returned; with every day in range the recurrence holds
\* the days as given.
C11_DayRanges ==
    /\ \A i \in 0..40 : MonthdayOk(i) <=> i \in 1..31
    /\ \A i \in 0..400 : YeardayOk(i) <=> i \in 1..366
    /\ (rec.done /\ DayOfMonthForm(serde)) =>
            IF InRange(serde.monthdays, 1, 31)
            THEN rec = Monthly(serde.monthdays)
            ELSE /\ ~rec.ok /\ rec.variant = "none" /\ rec.monthdays = <<>>
                 /\ rec.err = "InvalidMonthday"
                 /\ rec.arg \in OutOfRange(serde.monthdays, 1, 31)
    /\ (rec.done /\ DayOfYearForm(serde)) =>
            IF InRange(serde.yeardays, 1, 366)
            THEN rec = Yearly(serde.yeardays)
            ELSE /\ ~rec.ok /\ rec.variant = "none" /\ rec.yeardays = <<>>
                 /\ rec.err = "InvalidYearday"
                 /\ rec.arg \in OutOfRange(serde.yeardays, 1, 366)

\* a monthly record whose days are 15, 32 and 0 has been rejected for its 32
C11_Witness ==
    /\ rec.done
    /\ DayOfMonthForm(serde)
    /\ serde.monthdays = <<15, 32, 0>>
    /\ rec.err = "InvalidMonthday"
    /\ rec.arg = 32

(***************************************************************************)
(* Properties of the matching functions (checked under SpecEvt)            *)
(***************************************************************************)
AskedRecurrence(variant) ==
    query.op = "Recurrence::matches" /\ rec.variant = variant

\* the days of the month of query.date that fall on its weekday
SameWeekdayDays(date) ==
    {k \in 1..num_days(MonthOf(date)) :
        weekday(Date(date.year, date.month, k)) = weekday(date)}

\* C12: a relative monthly recurrence with index Last matches a date exactly
\* when the weekday of the date is one of its weekdays and no later day of
\* the same month falls on that weekday, which is when the date seven days
\* later lies in the next month.
C12_LastOccurrence ==
    (AskedRecurrence("RelativeMonthly") /\ rec.index = "last") =>
        LET d == query.date IN
        /\ query.result <=>
                /\ Contains(rec.weekdays, weekday(d))
                /\ \A k \in SameWeekdayDays(d) : k <= d.day
        /\ (\A k \in SameWeekdayDays(d) : k <= d.day)
                <=> d.day + 7 > num_days(MonthOf(d))

\* the last Sunday of February 2026, a month of 28 days, has matched
C12_Witness ==
    /\ AskedRecurrence("RelativeMonthly")
    /\ rec.index = "last"
    /\ Contains(rec.weekdays, "Sun")
    /\ query.date = Date(2026, 2, 22)
    /\ query.result

IndexNumber(index) ==
    CASE index = "first" -> 0
      [] index = "second" -> 1
      [] index = "third" -> 2
      [] index = "fourth" -> 3

\* C13: a relative monthly recurrence with index First..Fourth, numbered k
\* in 0..3, matches a date exactly when the weekday of the date is one of
\* its weekdays and floor((day - 1) / 7) = k, which is when the date is the
\* (k+1)-th day of its month on that weekday; a date on day 29, 30 or 31
\* matches none of them.
C13_NthOccurrence ==
    (AskedRecurrence("RelativeMonthly") /\ rec.index # "last") =>
        LET d == query.date
            k == IndexNumber(rec.index)
        IN
        /\ query.result <=>
                /\ Contains(rec.weekdays, weekday(d))
                /\ (d.day - 1) \div 7 = k
        /\ (d.day - 1) \div 7 = k
                <=> Cardinality({j \in SameWeekdayDays(d) : j <= d.day}) = k + 1
        /\ d.day >= 29 => ~query.result

\* the second Sunday of February 2026 has matched the index Second
C13_Witness ==
    /\ AskedRecurrence("RelativeMonthly")
    /\ rec.index = "second"
    /\ Contains(rec.weekdays, "Sun")
    /\ query.date = Date(2026, 2, 8)
    /\ query.result

\* a date as one number that grows with the calendar
DateNumber(date) == date.year * 10000 + date.month * 100 + date.day

\* the day of the year, counted without the lengths of the months: the
\* number of dates of the year up to the date
DayOfYear(date) ==
    Cardinality({p \in Dates :
        p.year = date.year /\ DateNumber(p) <= DateNumber(date)})

\* C14: Daily matches every date; Weekly, Monthly, Yearly and Once match a
\* date exactly when its weekday, its day of the month, its day of the year,
\* or the date itself is in the list of the recurrence.  Monthly([31])
\* matches no date of a month shorter than 31 days and Yearly([366]) no date
\* of a common year.
C14_PlainVariants ==
    LET d == query.date IN
    /\ AskedRecurrence("Daily") => query.result
    /\ AskedRecurrence("Weekly") =>
            (query.result <=> Contains(rec.weekdays, weekday(d)))
    /\ AskedRecurrence("Monthly") =>
            /\ query.result <=> Contains(rec.monthdays, d.day)
            /\ (rec.monthdays = <<31>> /\ num_days(MonthOf(d)) < 31) => ~query.result
    /\ AskedRecurrence("Yearly") =>
            /\ query.result <=> Contains(rec.yeardays, DayOfYear(d))
            /\ (rec.yeardays = <<366>> /\ ~IsLeapYear(d.year)) => ~query.result
    /\ AskedRecurrence("Once") =>
            (query.result <=> Contains(rec.dates, d))

\* Yearly([366]) has matched the last day of a leap year
C14_Witness ==
    /\ AskedRecurrence("Yearly")
    /\ rec.yeardays = <<366>>
    /\ query.date = Date(2024, 12, 31)
    /\ query.result

Within(range, date) ==
    /\ (range.from = None \/ DateNumber(range.from[1]) <= DateNumber(date))
    /\ (range.to = None \/ DateNumber(date) <= DateNumber(range.to[1]))

\* C15: an event matches a date exactly when its validity contains the date,
\* none of its exceptions contains the date, and its recurrence matches the
\* date; a Daily event valid for January does not match the first of
\* February.
C15_EventMatches ==
    (query.op = "Event::matches") =>
        LET d == query.date IN
        /\ query.result <=>
                /\ Within(event.validity, d)
                /\ \A i \in 1..Len(event.exceptions) : ~Within(event.exceptions[i], d)
                /\ matches(rec, d)
        /\ ( /\ rec.variant = "Daily"
             /\ event.validity = DateRange(Some(JanFirst), Some(JanLast))
             /\ d = Date(2026, 2, 1) ) => ~query.result

\* a Daily event valid for January was asked about a day of January that
\* one of its exceptions holds, and has not matched
C15_Witness ==
    /\ query.op = "Event::matches"
    /\ rec.variant = "Daily"
    /\ event.validity = DateRange(Some(JanFirst), Some(JanLast))
    /\ event.exceptions = SomeExceptions
    /\ query.date = Date(2026, 1, 10)
    /\ ~query.result

\* C16: a range contains a date exactly when its lower bound is absent or
\* not after the date and its upper bound is absent or not before the date;
\* a range without bounds contains every date, so that an exception without
\* bounds keeps the event from matching any date, and a range whose lower
\* bound is after its upper bound contains no date.
C16_RangeContains ==
    /\ (query.op = "DateRange::contains") =>
            LET r == event.validity
                d == query.date
            IN
            /\ query.result <=> Within(r, d)
            /\ r = DefaultDateRange => query.result
            /\ (r.from # None /\ r.to # None
                    /\ DateNumber(r.from[1]) > DateNumber(r.to[1])) => ~query.result
            /\ (r.from = Some(d) \/ r.to = Some(d))
                    => (query.result <=> r # DateRange(Some(JanLast), Some(JanFirst)))
    /\ (query.op = "Event::matches" /\ Contains(event.exceptions, DefaultDateRange))
            => ~query.result

\* the range of January has been asked about its last day and contains it
C16_Witness ==
    /\ query.op = "DateRange::contains"
    /\ event.validity = DateRange(Some(JanFirst), Some(JanLast))
    /\ query.date = JanLast
    /\ query.result

(***************************************************************************)
(* Properties of parsing and rendering (checked under Spec)                *)
(***************************************************************************)
\* a page has just been read from its file
JustLoaded ==
    last.op \in {"load", "update_begin"} /\ last.ok /\ file.present

\* a page has just been written to its file
JustWritten ==
    last.op \in {"write", "update"} /\ last.wrote /\ last.ok

\* the lines of a text after its front matter
Body(text) ==
    IF Len(text) >= 1 /\ text[1] = Delim
    THEN SubSeq(text, FindLine(text, 2, Delim) + 1, Len(text))
    ELSE text

\* the lines of all the entries, none passed over
RECURSIVE AllEntryLines(_)
AllEntryLines(entries) ==
    IF entries = <<>> THEN <<>>
    ELSE EntryLines(Head(entries)) \o AllEntryLines(Tail(entries))

LeadingBlankLines(text) == SkipBlank(text, 1) - 1

\* C17 as stated: the entries returned by parse hold no empty Line before
\* their first non-empty entry.
C17_ParseDropsLeadingBlanks ==
    JustLoaded =>
        LET es == page.content.entries IN
        (\E i \in 1..Len(es) : ~is_empty(es[i])) => es[1] # Line(Txt(""))

\* C17 (amended): parse keeps every line of the body: the entries, written
\* out one after the other, are the lines of the body in source order (with
\* the closing fence of a block that the text leaves open), so that each
\* leading blank line and each later blank line outside a code block is an
\* empty Line entry; it is the rendering that passes over the empty entries
\* before the first non-empty one.
C17_ParseKeepsLeadingBlanks ==
    JustLoaded =>
        LET es == page.content.entries
            body == Body(file.text)
        IN
        /\ AllEntryLines(es) \in {body, body \o <<Fence("")>>}
        /\ \A i \in 1..LeadingBlankLines(body) : es[i] = Line(Txt(""))
        /\ RenderEntries(es, 1, FALSE) = AllEntryLines(DropLeadingEmpty(es))

\* a text that begins with a blank line and holds another one further down
\* has been parsed
C17_Witness ==
    /\ JustLoaded
    /\ Len(page.content.entries) = 4
    /\ page.content.entries[1] = Line(Txt(""))
    /\ page.content.entries[2] = Line(Txt("y"))
    /\ page.content.entries[3] = Line(Txt(""))

AllScalars(props) == \A i \in 1..Len(props) : props[i].val.t # "seq"

\* C18 as stated: with properties the rendered text is the delimiter, one
\* line per property, the delimiter, one blank line, then every entry.
C18_BlankSeparator ==
    (JustWritten /\ last.before.content.properties # <<>>) =>
        LET c == last.before.content
            n == Len(c.properties)
        IN
        /\ Len(file.text) = n + 3 + Len(AllEntryLines(c.entries))
        /\ file.text[1] = Delim
        /\ file.text[n + 2] = Delim
        /\ file.text[n + 3] = Txt("")
        /\ SubSeq(file.text, n + 4, Len(file.text)) = AllEntryLines(c.entries)

\* C18 (amended): with properties the rendered text is the delimiter, the
\* lines of the properties in the order of the mapping, the delimiter, and
\* directly after it, without a blank line, every entry from the first
\* non-empty one on; without properties it is these entries alone.
C18_NoSeparator ==
    JustWritten =>
        LET c == last.before.content
            n == Len(c.properties)
            rest == AllEntryLines(DropLeadingEmpty(c.entries))
        IN
        IF n = 0 THEN file.text = rest
        ELSE LET m == FindLine(file.text, 2, Delim) - 2 IN
             /\ Len(file.text) = m + 2 + Len(rest)
             /\ file.text[1] = Delim
             /\ AllScalars(c.properties) =>
                    /\ m = n
                    /\ \A i \in 1..n : /\ file.text[i + 1].k = "kv"
                                        /\ file.text[i + 1].a = c.properties[i].key
                                        /\ file.text[i + 1].b = c.properties[i].val.s
             /\ \A i \in 1..n : \E j \in 2..(m + 1) :
                    /\ file.text[j].k \in {"kv", "key"}
                    /\ file.text[j].a = c.properties[i].key
             /\ file.text[m + 2] = Delim
             /\ SubSeq(file.text, m + 3, Len(file.text)) = rest
             /\ (rest # <<>> => file.text[m + 3] # Txt(""))

\* a page with a property and a first entry that is not empty has been
\* written
C18_Witness ==
    /\ JustWritten
    /\ last.before.content.properties # <<>>
    /\ last.before.content.entries # <<>>
    /\ ~is_empty(last.before.content.entries[1])
    /\ AllScalars(last.before.content.properties)
    /\ file.text[Len(last.before.content.properties) + 3] # Txt("")

CodeBodies(c) ==
    {c.entries[i].code : i \in {j \in 1..Len(c.entries) : c.entries[j].type = "CodeBlock"}}

InSomeCodeBody(c, x) ==
    \E code \in CodeBodies(c) : \E j \in 1..Len(code) : code[j] = x

\* C19: parse makes one CodeBlock entry of a line that begins with the
\* fence, the lines after it up to the next line equal to the fence, and
\* that line: its kind is the rest of the opening line, its body the lines
\* between as they are, blank ones too, and no line of the body is a Line
\* entry.  prepend_line(x) adds x when x is found in code block bodies only.
C19_CodeBlocksAtomic ==
    /\ JustLoaded =>
            LET es == page.content.entries
                body == Body(file.text)
            IN
            /\ AllEntryLines(es) \in {body, body \o <<Fence("")>>}
            /\ \A i \in 1..Len(es) :
                    IF es[i].type = "Line"
                    THEN es[i].line.k # "fence"
                    ELSE \A j \in 1..Len(es[i].code) : es[i].code[j] # Fence("")
    /\ ( /\ last.op = "prepend_line"
         /\ last.line \notin LineEntries(last.before.content)
         /\ InSomeCodeBody(last.before.content, last.line) ) =>
            /\ last.ret
            /\ page.content.entries = <<Line(last.line)>> \o last.before.content.entries
            /\ InSomeCodeBody(page.content, last.line)

\* the line x, held by the body of a toml block only, has been prepended
C19_Witness ==
    /\ last.op = "prepend_line"
    /\ last.line = Txt("x")
    /\ last.ret
    /\ CodeBlock("toml", <<Txt("x"), Txt("")>>) \in
            {last.before.content.entries[i] : i \in 1..Len(last.before.content.entries)}
    /\ Txt("x") \notin LineEntries(last.before.content)

\* from_str has been given the text of the file
Parsed ==
    last.op \in {"load", "update_begin"} /\ file.present /\ last.err # "ReadingFile"

HasFrontMatter(text) == Len(text) >= 1 /\ text[1] = Delim

\* the lines between the leading delimiter and the next one, blank ones left
\* out
FrontMatter(text) ==
    SelectSeq(SubSeq(text, 2, FindLine(text, 2, Delim) - 1), NotBlank)

LineKinds(lines) == {lines[i].k : i \in 1..Len(lines)}

\* what the front matter is for YAML
Malformed(fm) == "bad" \in LineKinds(fm)
MultiDocument(fm) == \E i \in 2..Len(fm) : fm[i].k = "doc"
FlatMapping(fm) == fm # <<>> /\ LineKinds(fm) = {"kv"}
NestedMapping(fm) ==
    /\ LineKinds(fm) \subseteq {"kv", "key", "item"}
    /\ "key" \in LineKinds(fm)
    /\ \A i \in 1..Len(fm) : fm[i].k = "item" => fm[i].q = "in"
ScalarOrSequence(fm) ==
    fm # <<>> /\ (LineKinds(fm) = {"txt"}
                    \/ (LineKinds(fm) = {"item"} /\ \A i \in 1..Len(fm) : fm[i].q = ""))

ParseFailed == ~last.ok /\ last.err # "" /\ page = NoPage /\ pc = "idle"
ParseGave(props) == last.ok /\ pc # "idle" /\ page.content.properties = props

\* C20 as stated: parsing fails when the front matter is malformed, holds
\* several documents or is anything but a flat mapping, and gives empty
\* properties for a text without front matter or with an empty one.
C20_FlatMappingOrError ==
    Parsed =>
        LET fm == FrontMatter(file.text) IN
        IF ~HasFrontMatter(file.text) \/ fm = <<>> THEN ParseGave(<<>>)
        ELSE (Malformed(fm) \/ MultiDocument(fm) \/ ~FlatMapping(fm)) => ParseFailed

\* C20 (amended): parsing fails, with an error and no content, when the
\* front matter is malformed, holds several documents, or is a scalar or a
\* sequence; a mapping is taken whether its values are scalars or nested
\* sequences, which are kept; a text without front matter or with an empty
\* one gives empty properties.
C20_MappingOrError ==
    Parsed =>
        LET fm == FrontMatter(file.text) IN
        IF ~HasFrontMatter(file.text) \/ fm = <<>> THEN ParseGave(<<>>)
        ELSE /\ Malformed(fm) => (ParseFailed /\ last.err = "Yaml")
             /\ (MultiDocument(fm) /\ ~Malformed(fm))
                    => (ParseFailed /\ last.err = "MultipleDocuments")
             /\ ScalarOrSequence(fm) => (ParseFailed /\ last.err = "NotAMapping")
             /\ FlatMapping(fm) =>
                    /\ last.ok
                    /\ AllScalars(page.content.properties)
                    /\ \A i \in 1..Len(fm) :
                            Lookup(page.content.properties, fm[i].a) \in
                                {StrV(fm[i].b), IntV(fm[i].b)}
             /\ NestedMapping(fm) =>
                    /\ last.ok
                    /\ \A i \in 1..Len(fm) : fm[i].k = "key" =>
                            Lookup(page.content.properties, fm[i].a).t = "seq"
             /\ last.ok <=> (FlatMapping(fm) \/ NestedMapping(fm))

\* a front matter whose key holds a sequence has been parsed
C20_Witness ==
    /\ Parsed
    /\ last.ok
    /\ NestedMapping(FrontMatter(file.text))
    /\ page.content.properties = <<[key |-> "k1", val |-> SeqV(<<"a">>)]>>

\* C29: a write that fails, whether at the directory, at the creation of the
\* file or while writing, returns its error and leaves exists() and
\* modified() as they were; a write that succeeds leaves exists() true and
\* modified() false.
C29_FailedWriteKeepsFlags ==
    last.op = "write" =>
        IF last.ok
        THEN page.exists /\ ~page.modified /\ pc = "open"
        ELSE /\ last.err \in {"CreatingDir", "CreatingFile", "WritingFile"}
             /\ page.exists = last.before.exists
             /\ page.modified = last.before.modified
             /\ pc = "failed"

\* the write of a modified page that had no file has failed while writing
C29_Witness ==
    /\ last.op = "write"
    /\ last.err = "WritingFile"
    /\ page.modified
    /\ ~page.exists
    /\ file.present

NoRepeat(lines) ==
    \A i, j \in 1..Len(lines) : lines[i] = lines[j] => i = j

\* the lines of a batch that are no entry of content c, in their order
AbsentLines(lines, c) ==
    LET Absent(l) == l \notin LineEntries(c) IN SelectSeq(lines, Absent)

\* C30: after prepend_lines(L), for L without a repeated line, the entries
\* are the lines of L that were no entry, in their order in L, followed by
\* the entries as they were: all of L when none of its lines was an entry,
\* and the lines that were entries stay where they were; modified() is true
\* afterwards exactly when it was true before or a line of L was no entry.
C30_PrependLinesOrder ==
    last.op = "prepend_lines" =>
        LET absent == AbsentLines(last.batch, last.before.content) IN
        /\ NoRepeat(last.batch) =>
                page.content.entries =
                    [i \in 1..Len(absent) |-> Line(absent[i])]
                        \o last.before.content.entries
        /\ page.modified = (last.before.modified \/ absent # <<>>)
        /\ page.content.properties = last.before.content.properties

\* two lines, neither an entry, have been prepended to a page with entries
C30_Witness ==
    /\ last.op = "prepend_lines"
    /\ last.batch = <<Txt("x"), Txt("y")>>
    /\ last.before.content.entries # <<>>
    /\ ~last.before.modified
    /\ SubSeq(page.content.entries, 1, 2) = <<Line(Txt("x")), Line(Txt("y"))>>
    /\ Len(page.content.entries) = Len(last.before.content.entries) + 2

(***************************************************************************)
(* Panics of Recurrence::matches (checked under SpecEvt)                   *)
(***************************************************************************)
\* C27: Recurrence::matches never panics: for every date asked about, the
\* day of the month lies in 1..31 and the day of the year in 1..366, so
\* that Monthday::try_from and Yearday::try_from succeed, and the day of the
\* month is not past the length of the month, so that the unsigned
\* difference num_days - day does not go below zero.
C27_MatchesNeverPanics ==
    (query.op \in {"Recurrence::matches", "Event::matches"}) =>
        LET d == query.date IN
        /\ ~query.panicked
        /\ d.day \in 1..31 /\ MonthdayOk(d.day)
        /\ ordinal(d) \in 1..366 /\ YeardayOk(ordinal(d))
        /\ ordinal(d) = DayOfYear(d)
        /\ num_days(MonthOf(d)) - d.day >= 0

\* a yearly recurrence has been asked about the day 366 of a leap year, and
\* a relative monthly one about the last day of a month, on its weekday
C27_Witness ==
    /\ query.op = "Recurrence::matches"
    /\ ~query.panicked
    /\ \/ rec.variant = "Yearly" /\ query.date = Date(2024, 12, 31)
       \/ /\ rec.variant = "RelativeMonthly"
          /\ query.date = Date(2024, 2, 29)
          /\ Contains(rec.weekdays, weekday(query.date))

(***************************************************************************)
(* Properties of the calendar units (checked under SpecCal)                *)
(***************************************************************************)
\* the calls made from the unit, by name
NavOps == [i \in 1..Len(nav.path) |-> nav.path[i].op]

\* the month `sign * count` months from m, by the quotient and the
\* remainder of the count by 12
MonthShift(m, sign, count) ==
    LET index == (m.month - 1) + sign * u32_rem12(count) IN
    Month(m.year + sign * u32_div12(count) + (index \div 12), (index % 12) + 1)

\* C22: for every month m and every count n >= 0, m + Months(n) and
\* m - Months(n) have a month in 1..12 and are the month n months after and
\* before m; December 2024 + 1 is January 2025 and December 2024 - 12 is
\* December 2023; next() followed by prev(), and prev() followed by next(),
\* give m back.
C22_MonthArithmetic ==
    unit.kind = "month" =>
        LET m == Month(unit.year, unit.n) IN
        /\ (Len(nav.path) = 1 /\ nav.path[1].op \in {"add", "sub"}) =>
                /\ ~nav.panicked
                /\ nav.value.n \in 1..12
                /\ nav.value = MonthUnit(MonthShift(m,
                        IF nav.path[1].op = "add" THEN 1 ELSE -1,
                        nav.path[1].count))
        /\ (m = Month(2024, 12) /\ nav.path = <<[op |-> "add", count |-> MonthsNew(1)]>>)
                => nav.value = MonthUnit(Month(2025, 1))
        /\ (m = Month(2024, 12) /\ nav.path = <<[op |-> "sub", count |-> MonthsNew(12)]>>)
                => nav.value = MonthUnit(Month(2023, 12))
        /\ NavOps \in {<<"next", "prev">>, <<"prev", "next">>} => nav.value = unit

\* C23: num_days() is 31 for the months 1, 3, 5, 7, 8, 10, 12, 30 for the
\* months 4, 6, 9, 11, and for February 29 in a leap year of the Gregorian
\* rule and 28 otherwise; it is the day of the month of Month.last(), the
\* date whose next day is the first of a month.
C23_NumDays ==
    (unit.kind = "month" /\ nav.days # 0) =>
        LET m == NavMonth
            y == m.year
        IN
        /\ m.month \in {1, 3, 5, 7, 8, 10, 12} => nav.days = 31
        /\ m.month \in {4, 6, 9, 11} => nav.days = 30
        /\ m.month = 2 =>
                nav.days = IF (y % 4 = 0 /\ y % 100 # 0) \/ y % 400 = 0
                           THEN 29 ELSE 28
        /\ nav.days = month_last(m).day
        /\ month_last(m).month = m.month
        /\ add_day(month_last(m)).day = 1

\* num_days() has been asked of February 1900 and of February 2000
C23_Witness ==
    /\ nav.path = <<[op |-> "num_days", count |-> MonthsNew(0)]>>
    /\ \/ unit = MonthUnit(Month(1900, 2)) /\ nav.days = 28
       \/ unit = MonthUnit(Month(2000, 2)) /\ nav.days = 29

\* the number of a date that grows by one with each day
EpochDay(date) == DaysBeforeYear(date.year) + ordinal(date)

\* C24: w.next() is the ISO week of the day after w.last() and w.prev() the
\* ISO week of the day before w.first(): the first day of w.next() is the
\* day after w.last(), seven days after w.first(), the last day of w.prev()
\* is the day before w.first(); next() then prev(), and prev() then next(),
\* give w back; the week after the last week of an ISO year, of 52 or of 53
\* weeks, is week 1 of the next ISO year.
C24_WeekNavigation ==
    unit.kind = "week" =>
        LET w == IsoWeek(unit.year, unit.n)
            v == NavWeek
        IN
        /\ NavOps = <<"next">> =>
                /\ v = iso_week(add_day(week_last(w)))
                /\ week_first(v) = add_day(week_last(w))
                /\ EpochDay(week_first(v)) = EpochDay(week_first(w)) + 7
                /\ weekday(week_first(v)) = "Mon"
                /\ iso_week(Date(w.year, 12, 28)) = w => v = IsoWeek(w.year + 1, 1)
                /\ iso_week(Date(w.year, 12, 28)) # w => v = IsoWeek(w.year, w.week + 1)
        /\ NavOps = <<"prev">> =>
                /\ v = iso_week(sub_day(week_first(w)))
                /\ week_last(v) = sub_day(week_first(w))
                /\ EpochDay(week_last(v)) = EpochDay(week_last(w)) - 7
                /\ weekday(week_last(v)) = "Sun"
        /\ NavOps \in {<<"next", "prev">>, <<"prev", "next">>} => v = w

\* the week after week 53 of 2026 and the week after week 52 of 2024 have
\* been computed
C24_Witness ==
    /\ NavOps = <<"next">>
    /\ \/ unit = WeekUnit(IsoWeek(2026, 53)) /\ nav.value = WeekUnit(IsoWeek(2027, 1))
       \/ unit = WeekUnit(IsoWeek(2024, 52)) /\ nav.value = WeekUnit(IsoWeek(2025, 1))

ForwardOnly == \A i \in 1..Len(yielded) : yielded[i].call = "next"

\* the number of elements of a unit
UnitSize(u) ==
    CASE u.kind = "week" -> 7
      [] u.kind = "month" -> num_days(Month(u.year, u.n))
      [] u.kind = "year" -> 12

\* the i-th element of a unit
RECURSIVE UnitElement(_, _)
UnitElement(u, i) ==
    CASE u.kind = "year" -> Month(u.year, i)
      [] u.kind = "month" -> Date(u.year, u.n, i)
      [] u.kind = "week" ->
            IF i = 1 THEN week_first(IsoWeek(u.year, u.n))
            ELSE add_day(UnitElement(u, i - 1))

\* C25: repeated next() on unit.iter() yields first(), then each successor
\* up to and including last(), each element once, 7 dates for a week,
\* num_days dates for a month and 12 months for a year, and None on every
\* later call.
C25_ForwardIteration ==
    (unit # NoUnit /\ ForwardOnly) =>
        LET n == UnitSize(unit) IN
        /\ \A i \in 1..Len(yielded) :
                yielded[i].item = IF i <= n THEN Some(UnitElement(unit, i)) ELSE None
        /\ UnitElement(unit, 1) = unit_first(unit)
        /\ UnitElement(unit, n) = unit_last(unit)
        /\ unit.kind = "week" =>
                \A i \in 1..n : /\ iso_week(UnitElement(unit, i)) = IsoWeek(unit.year, unit.n)
                                /\ weekday(UnitElement(unit, i)) = Weekdays[i]

\* February 2024 has been iterated to its end and asked twice more
C25_Witness ==
    /\ unit = MonthUnit(Month(2024, 2))
    /\ ForwardOnly
    /\ Len(yielded) = 31
    /\ yielded[29].item = Some(Date(2024, 2, 29))
    /\ yielded[30].item = None
    /\ yielded[31].item = None

\* C26: for every interleaving of next() and next_back() on one iterator no
\* element is yielded twice and every element yielded lies between first()
\* and last().
C26_DoubleEndedContract ==
    unit # NoUnit =>
        /\ \A i, j \in 1..Len(yielded) :
                (i < j /\ yielded[i].item # None) => yielded[i].item # yielded[j].item
        /\ \A i \in 1..Len(yielded) :
                yielded[i].item # None =>
                    /\ ~element_lt(unit, yielded[i].item[1], unit_first(unit))
                    /\ ~element_lt(unit, unit_last(unit), yielded[i].item[1])

(***************************************************************************)
(* Properties of the merge (checked under SpecMerge)                       *)
(***************************************************************************)
PropertyKeys(props) == [i \in 1..Len(props) |-> props[i].key]

\* the keys of a list of properties, each once, in the order of their first
\* occurrence
RECURSIVE DistinctKeys(_)
DistinctKeys(props) ==
    IF props = <<>> THEN <<>>
    ELSE LET rest == DistinctKeys(SubSeq(props, 1, Len(props) - 1))
             k == props[Len(props)].key
         IN IF \E i \in 1..Len(rest) : rest[i] = k THEN rest ELSE Append(rest, k)

\* the value the last property with the key holds
LastValue(props, key) ==
    LET i == CHOOSE i \in 1..Len(props) :
                /\ props[i].key = key
                /\ \A j \in (i + 1)..Len(props) : props[j].key # key
    IN props[i].value

\* the entries of a list that are no member of seen, each once, in order
RECURSIVE NewEntries(_, _)
NewEntries(lines, seen) ==
    IF lines = <<>> THEN <<>>
    ELSE IF Head(lines) \in seen THEN NewEntries(Tail(lines), seen)
    ELSE <<Head(lines)>> \o NewEntries(Tail(lines), seen \cup {Head(lines)})

\* C21: after target + rhs every key of rhs is mapped to the value rhs gives
\* it last, the properties of the target keep their keys and positions and
\* the keys new to the target follow them in rhs order; the entries are those
\* of the target, duplicates kept, followed by the rhs entries that equal no
\* entry already in the result, in rhs order; merging rhs a second time
\* changes nothing.
C21_Merge ==
    merged.count >= 1 =>
        LET t == merged.target
            n == Len(t.properties)
            newKeys == SelectSeq(DistinctKeys(rhs.properties),
                                 LAMBDA k : find_key(t.properties, k) = 0)
        IN
        /\ \A i \in 1..Len(rhs.properties) :
                LET k == rhs.properties[i].key IN
                lhs.properties[find_key(lhs.properties, k)].value
                    = LastValue(rhs.properties, k)
        /\ PropertyKeys(lhs.properties) = PropertyKeys(t.properties) \o newKeys
        /\ \A i \in 1..n :
                (find_key(rhs.properties, t.properties[i].key) = 0
                    \/ find_key(t.properties, t.properties[i].key) # i)
                => lhs.properties[i] = t.properties[i]
        /\ lhs.entries = t.entries \o
                NewEntries(rhs.entries, {t.entries[i] : i \in 1..Len(t.entries)})
        /\ merged.count >= 2 => lhs = merged.prev

\* a document that gives k1 two values and the line x twice has been merged
\* twice into a target that holds k2 and k1 and a code block
C21_Witness ==
    /\ merged.count = 2
    /\ merged.target = [properties |-> <<Property("k2", "a"), Property("k1", "a")>>,
                        entries |-> <<CodeBlock("", <<Txt("x")>>)>>]
    /\ rhs = [properties |-> <<Property("k1", "a"), Property("k1", "b")>>,
              entries |-> <<Line(Txt("x")), Line(Txt("x"))>>]
    /\ lhs = [properties |-> <<Property("k2", "a"), Property("k1", "b")>>,
              entries |-> <<CodeBlock("", <<Txt("x")>>), Line(Txt("x"))>>]

(***************************************************************************)
(* Properties of Preparer::run (checked under SpecRun)                     *)
(***************************************************************************)
\* the dates from job.from to job.to
RangeDates ==
    [i \in 1..(EpochDay(job.to) - EpochDay(job.from) + 1) |->
        add_days(job.from, i - 1)]

\* the unit of a kind that holds a date
UnitOf(kind, date) ==
    CASE kind = "day" -> date
      [] kind = "week" -> iso_week(date)
      [] kind = "month" -> MonthOf(date)
      [] kind = "year" -> Year(date.year)

\* the units of a kind that hold a date of the list, each once, in the order
\* of their first date
RECURSIVE UnitsOf(_, _)
UnitsOf(kind, dates) ==
    IF dates = <<>> THEN <<>>
    ELSE LET rest == UnitsOf(kind, SubSeq(dates, 1, Len(dates) - 1))
             u == UnitOf(kind, dates[Len(dates)])
         IN IF \E i \in 1..Len(rest) : rest[i] = u THEN rest ELSE Append(rest, u)

\* the units handed to the print call of a kind, in the order of the calls
PrintedUnits(kind) ==
    LET calls == SelectSeq(printed, LAMBDA e : e.kind = kind) IN
    [i \in 1..Len(calls) |-> calls[i].unit]

IsPrefix(a, b) == Len(a) <= Len(b) /\ a = SubSeq(b, 1, Len(a))

\* the first date of the range that the unit of the call holds
FirstDateOf(call) ==
    LET i == CHOOSE i \in 1..Len(RangeDates) :
                /\ UnitOf(call.kind, RangeDates[i]) = call.unit
                /\ \A j \in 1..(i - 1) : UnitOf(call.kind, RangeDates[j]) # call.unit
    IN RangeDates[i]

\* the last print_day call before the call at position p
DayBefore(p) ==
    LET q == CHOOSE q \in 1..(p - 1) :
                /\ printed[q].kind = "day"
                /\ \A r \in (q + 1)..(p - 1) : printed[r].kind # "day"
    IN printed[q].unit

====
